---- MODULE Spec2Model ----
(***************************************************************************)
(* Model of the Bitmine A1 SPI driver of cgminer: the per-chain driver     *)
(* loop (A1_scanwork, A1_queue_full, A1_flush_work), the per-chip cooldown *)
(* state machine, the job scheduler, the auto-tuner and the CoinCraft      *)
(* Blade board selector.                                                   *)
(*                                                                         *)
(* Conventions.  chips are indexed by chip_id (1..num_active_chips), i.e.  *)
(* chips[k] is the C a1->chips[k - 1].  Work slots keep the C indices      *)
(* 0..3.  A missing work (C NULL) is the record NULL.  Times are in ms.    *)
(* A 64-bit value is the pair [hi, lo] of its 32-bit words.                *)
(***************************************************************************)
EXTENDS Integers, Sequences, FiniteSets, TLC

(***************************************************************************)
(* Bounds of the model.                                                    *)
(***************************************************************************)
\* chips of a chain
MaxChips == 2
\* work items the framework hands out over a run to a chain of one chip (a
\* chain of n chips whose queue is to fill up gets 2 * n)
MaxWorks == 5
\* work items handed out to a chain whose tuner acts
MaxWorksTune == 2
\* results the chips' output queue delivers over a run
MaxNonces == 1
\* advances of the clock over a run
MaxTicks == 4
\* ms the clock advances in one step
TickMs == 30000
\* I2C writes of the board selector that fail over a run
MaxFaults == 1
\* times the framework raises work_restart over a run
MaxRestarts == 1
\* commands the chips leave unanswered over a run
MaxChipFaults == 5
\* SPI transfers that fail over a run
MaxXferFaults == 1
\* calls of a function that is called on its own
MaxCalls == 3
\* time of bring-up
BootMs == 3000

(***************************************************************************)
(* Program constants.                                                      *)
(***************************************************************************)
COOLDOWN_MS == 30000
DISABLE_CHIP_FAIL_THRESHOLD == 3
WEAK_CHIP_THRESHOLD == 30
BROKEN_CHIP_THRESHOLD == 26
WEAK_CHIP_SYS_CLK == 600000
BROKEN_CHIP_SYS_CLK == 400000
BAD_NONCE_COUNT == 5
NONCE_INTERVAL_N == 200
MIN_NUM_NONCES == 30
CLOCK_DELTA == 4000
TEMP_UPDATE_INT_MS == 2000
TEMP_THROTTLE_SLEEP_MS == 5000
IDLE_SLEEP_MS == 120
ref_clk_khz == 16000
lower_clk_khz == 400000
upper_clk_khz == 1100000
lower_ratio_pm == 3
upper_ratio_pm == 20
CCB_MAX_CHAINS == 8

INT_MAX == 2147483647
INT_MIN == -INT_MAX - 1

NULL == [id |-> 0, device_diff |-> 0]

(***************************************************************************)
(* 32-bit signed addition as the two's complement machine performs it      *)
(* (x, y in the int range; the sum wraps).                                 *)
(***************************************************************************)
Add32(x, y) ==
    IF x > 0 /\ y > 0 /\ x > INT_MAX - y
    THEN (x - INT_MAX - 1) + (y - INT_MAX - 1)
    ELSE IF x < 0 /\ y < 0 /\ x < INT_MIN - y
    THEN (x + INT_MAX + 1) + (y + INT_MAX + 1)
    ELSE x + y

(***************************************************************************)
(* Observation of the bus: every SPI command issued appends                *)
(* <<cmd, chip, job_id>> to the chain's spi log, which holds the commands  *)
(* of the current step (job_id is 0 for all commands but WRITE_JOB); a      *)
(* result frame get_nonce delivers is logged as <<"RESULT", chip, job_id>>.*)
(* log_err tells whether the current step logged "failed to abort work".   *)
(***************************************************************************)
Spi(a, cmd, chip, job_id) == [a EXCEPT !.spi = Append(@, <<cmd, chip, job_id>>)]

flush_spi(a) == Spi(a, "FLUSH", 0, 0)

\* work_completed losing the item
work_completed_lost(a, work) == a

(***************************************************************************)
(* The framework's work_completed: counts, per work item, how often it was *)
(* given back.                                                             *)
(***************************************************************************)
work_completed(a, work) ==
    [a EXCEPT !.completed[work.id] = @ + 1]

(********** work queue *)
wq_enqueue(wq, work) ==
    IF work = NULL
    THEN wq
    ELSE [num_elems |-> wq.num_elems + 1, list |-> Append(wq.list, work)]

\* the work wq_dequeue returns
wq_front(wq) == IF wq.num_elems = 0 THEN NULL ELSE Head(wq.list)

\* the queue wq_dequeue leaves
wq_dequeue(wq) ==
    IF wq.num_elems = 0
    THEN wq
    ELSE [num_elems |-> wq.num_elems - 1, list |-> Tail(wq.list)]

(********** disable / re-enable related section *)
is_chip_disabled(a, chip_id) ==
    a.chips[chip_id].disabled \/ a.chips[chip_id].cooldown_begin # 0

disable_chip(a, chip_id, t) ==
    LET b == flush_spi(a)
    IN  IF is_chip_disabled(b, chip_id)
        THEN b
        ELSE [b EXCEPT !.chips[chip_id].cooldown_begin = t]

\* the status of the data model: Disabled, Cooling or Active
Status(chip) ==
    IF chip.disabled THEN "Disabled"
    ELSE IF chip.cooldown_begin # 0 THEN "Cooling"
    ELSE "Active"

(***************************************************************************)
(* check_disabled_chips, one chip: ok is whether READ_REG of the chip is   *)
(* answered.                                                               *)
(***************************************************************************)
\* check_disabled_chip never probing a chip
check_disabled_chip_skip(a, chip_id, ok, t) == a

\* check_disabled_chip without the cooldown wait
check_disabled_chip_nowait(a, chip_id, ok, t) ==
    LET chip == a.chips[chip_id]
    IN  IF ~is_chip_disabled(a, chip_id) THEN a
        ELSE IF chip.disabled THEN a
        ELSE LET b == Spi(a, "READ_REG", chip_id, 0)
             IN  IF ~ok
                 THEN IF chip.fail_count + 1 > DISABLE_CHIP_FAIL_THRESHOLD
                      THEN [b EXCEPT !.chips[chip_id].fail_count = @ + 1,
                                     !.chips[chip_id].disabled = TRUE,
                                     !.num_cores = @ - chip.num_cores]
                      ELSE [b EXCEPT !.chips[chip_id].fail_count = @ + 1,
                                     !.chips[chip_id].cooldown_begin = t]
                 ELSE [b EXCEPT !.chips[chip_id].cooldown_begin = 0,
                                !.chips[chip_id].fail_count = 0]

\* check_disabled_chip giving up when fail_count reaches the threshold
check_disabled_chip_ge(a, chip_id, ok, t) ==
    LET chip == a.chips[chip_id]
    IN  IF ~is_chip_disabled(a, chip_id) THEN a
        ELSE IF chip.disabled THEN a
        ELSE IF chip.cooldown_begin + COOLDOWN_MS > t THEN a
        ELSE LET b == Spi(a, "READ_REG", chip_id, 0)
             IN  IF ~ok
                 THEN IF chip.fail_count + 1 >= DISABLE_CHIP_FAIL_THRESHOLD
                      THEN [b EXCEPT !.chips[chip_id].fail_count = @ + 1,
                                     !.chips[chip_id].disabled = TRUE,
                                     !.num_cores = @ - chip.num_cores]
                      ELSE [b EXCEPT !.chips[chip_id].fail_count = @ + 1,
                                     !.chips[chip_id].cooldown_begin = t]
                 ELSE [b EXCEPT !.chips[chip_id].cooldown_begin = 0,
                                !.chips[chip_id].fail_count = 0]

check_disabled_chip(a, chip_id, ok, t) ==
    LET chip == a.chips[chip_id]
    IN  IF ~is_chip_disabled(a, chip_id) THEN a
        ELSE IF chip.disabled THEN a
        ELSE IF chip.cooldown_begin + COOLDOWN_MS > t THEN a
        ELSE LET b == Spi(a, "READ_REG", chip_id, 0)
             IN  IF ~ok
                 THEN IF chip.fail_count + 1 > DISABLE_CHIP_FAIL_THRESHOLD
                      THEN [b EXCEPT !.chips[chip_id].fail_count = @ + 1,
                                     !.chips[chip_id].disabled = TRUE,
                                     !.num_cores = @ - chip.num_cores]
                      ELSE [b EXCEPT !.chips[chip_id].fail_count = @ + 1,
                                     !.chips[chip_id].cooldown_begin = t]
                 ELSE [b EXCEPT !.chips[chip_id].cooldown_begin = 0,
                                !.chips[chip_id].fail_count = 0]

RECURSIVE cdc_loop(_, _, _, _)
cdc_loop(a, i, oks, t) ==
    IF i > a.num_active_chips THEN a
    ELSE cdc_loop(check_disabled_chip(a, i, oks[i], t), i + 1, oks, t)

\* oks[k]: whether a READ_REG of chip k would be answered
check_disabled_chips(a, oks, t) == cdc_loop(a, 1, oks, t)

(********** flush / restart *)
\* flush_chip whose loop starts at slot 1
flush_chip_from1(a, chip_id) ==
    LET RECURSIVE fl(_, _)
        fl(b, j) ==
            IF j > 3 THEN b
            ELSE IF b.chips[chip_id].work[j] = NULL THEN fl(b, j + 1)
            ELSE fl([work_completed(b, b.chips[chip_id].work[j])
                        EXCEPT !.chips[chip_id].work[j] = NULL], j + 1)
    IN  [fl(a, 1) EXCEPT !.chips[chip_id].last_queued_id = 0]

flush_chip(a, chip_id) ==
    LET RECURSIVE fl(_, _)
        fl(b, j) ==
            IF j > 3 THEN b
            ELSE IF b.chips[chip_id].work[j] = NULL THEN fl(b, j + 1)
            ELSE fl([work_completed(b, b.chips[chip_id].work[j])
                        EXCEPT !.chips[chip_id].work[j] = NULL], j + 1)
    IN  [fl(a, 0) EXCEPT !.chips[chip_id].last_queued_id = 0]

(***************************************************************************)
(* check_chip_pll_lock: up to MAX_PLL_WAIT_CYCLES READ_REGs.  lock is the   *)
(* hardware's answer: "ok" (lock bit seen, register read back as written), *)
(* "mismatch" (lock bit seen, other register bytes) or "timeout" (no       *)
(* READ_REG shows the lock bit).                                           *)
(***************************************************************************)
MAX_PLL_WAIT_CYCLES == 25

check_chip_pll_lock(a, chip_id, lock) ==
    LET RECURSIVE poll(_, _)
        poll(b, n) ==
            IF n >= MAX_PLL_WAIT_CYCLES THEN [a |-> b, r |-> FALSE]
            ELSE LET c == Spi(b, "READ_REG", chip_id, 0)
                 IN  IF lock # "timeout" THEN [a |-> c, r |-> (lock = "ok")]
                     ELSE poll(c, n + 1)
    IN  poll(a, 0)

(***************************************************************************)
(* set_pll_config: WRITE_REG of the synthesized register, then the lock    *)
(* loop for (i = from; i < to; i++) with from = to = chip_id - 1 for a     *)
(* targeted chip and 0 .. num_active_chips for the broadcast.              *)
(* in.wr_ok: WRITE_REG acknowledged; in.lock: answer of the lock polls.    *)
(***************************************************************************)
set_pll_config(a, chip_id, sys_clock_khz, in) ==
    LET b == Spi(a, "WRITE_REG", chip_id, 0)
        from == IF chip_id = 0 THEN 0 ELSE chip_id - 1
        to == IF chip_id = 0 THEN a.num_active_chips ELSE chip_id - 1
        RECURSIVE lp(_, _)
        lp(c, i) ==
            IF i >= to THEN [a |-> c, r |-> TRUE]
            ELSE LET l == check_chip_pll_lock(c, chip_id, in.lock)
                 IN  IF ~l.r THEN [a |-> l.a, r |-> FALSE]
                     ELSE lp(l.a, i + 1)
    IN  IF ~in.wr_ok THEN [a |-> b, r |-> FALSE]
        ELSE LET w == IF chip_id = 0
                      THEN [b EXCEPT !.hw_clk = [k \in DOMAIN @ |-> sys_clock_khz]]
                      ELSE IF chip_id \in DOMAIN b.hw_clk
                      THEN [b EXCEPT !.hw_clk[chip_id] = sys_clock_khz]
                      ELSE b
             IN  lp(w, from)

\* in.reset_ok: RESET of the chip acknowledged
restart_chip(a, chip_id, new_clk, in) ==
    LET b == Spi(a, "RESET", chip_id, 0)
    IN  IF ~in.reset_ok THEN [a |-> b, r |-> FALSE]
        ELSE set_pll_config(flush_chip(b, chip_id), chip_id, new_clk, in)

(********** auto-tuner *)
(***************************************************************************)
(* Window length of reset_nonce_stats,                                     *)
(*   (NONCE_INTERVAL_N * 1000.0) / ((num_cores * sys_clk) / 4294967.296),  *)
(* truncated to int: floor(858993459.2 / (num_cores * sys_clk / 1000)) for *)
(* clocks that are multiples of 1000 kHz (float rounding left out).  With  *)
(* num_cores = 0 the quotient is infinite and its conversion to int is     *)
(* undefined: inf_int is what the build produces.                          *)
(***************************************************************************)
WTime(num_cores, sys_clk, inf_int) ==
    IF num_cores * (sys_clk \div 1000) = 0
    THEN inf_int
    ELSE 858993459 \div (num_cores * (sys_clk \div 1000))

reset_nonce_stats(chip, t, inf_int) ==
    [chip EXCEPT
        !.at_prev = chip.at_current,
        !.at_current = [shares_ok |-> 0, shares_nok |-> 0,
                        start_time |-> t,
                        end_time |-> Add32(t, WTime(chip.num_cores,
                                          chip.at_current.sys_clk, inf_int)),
                        sys_clk |-> chip.at_current.sys_clk]]

get_nonce_ratio(chip) ==
    LET shares_all == chip.at_current.shares_nok + chip.at_current.shares_ok
    IN  IF shares_all < MIN_NUM_NONCES THEN -1
        ELSE (chip.at_current.shares_nok * 1000 + shares_all \div 2)
                 \div shares_all

\* adjust_clock programming the clock as it is computed
adjust_clock_noclamp(a, chip_id, clock_delta, t, cf, in) ==
    LET b == [a EXCEPT !.chips[chip_id] = reset_nonce_stats(@, t, cf.inf_int)]
        cur == b.chips[chip_id].at_current.sys_clk
        new_clk == cur + clock_delta
    IN  IF new_clk = cur THEN [a |-> b, r |-> FALSE]
        ELSE LET rs == restart_chip(b, chip_id, new_clk, in)
             IN  IF ~rs.r THEN [a |-> rs.a, r |-> FALSE]
                 ELSE [a |-> [rs.a EXCEPT
                                !.chips[chip_id].at_current.sys_clk = new_clk],
                       r |-> TRUE]

adjust_clock(a, chip_id, clock_delta, t, cf, in) ==
    LET b == [a EXCEPT !.chips[chip_id] = reset_nonce_stats(@, t, cf.inf_int)]
        cur == b.chips[chip_id].at_current.sys_clk
        sum == cur + clock_delta
        new_clk == IF sum > upper_clk_khz THEN upper_clk_khz
                   ELSE IF sum < lower_clk_khz THEN lower_clk_khz
                   ELSE sum
    IN  IF sum = cur THEN [a |-> b, r |-> FALSE]
        ELSE LET rs == restart_chip(b, chip_id, new_clk, in)
             IN  IF ~rs.r THEN [a |-> rs.a, r |-> FALSE]
                 ELSE [a |-> [rs.a EXCEPT
                                !.chips[chip_id].at_current.sys_clk = new_clk],
                       r |-> TRUE]

\* add_nonce_bad resetting the window when the ratio is unknown
add_nonce_bad_reset(a, chip_id, t, cf, in) ==
    LET b == [a EXCEPT !.chips[chip_id].hw_errors = @ + 1,
                       !.chips[chip_id].at_current.shares_nok = @ + 1]
        chip == b.chips[chip_id]
        ratio == get_nonce_ratio(chip)
        reset == [b EXCEPT !.chips[chip_id] = reset_nonce_stats(@, t, cf.inf_int)]
    IN  IF chip.at_current.shares_nok < BAD_NONCE_COUNT THEN [a |-> b, r |-> FALSE]
        ELSE IF ratio < 0 THEN [a |-> reset, r |-> FALSE]
        ELSE IF ~cf.enable_auto_tune THEN [a |-> b, r |-> FALSE]
        ELSE IF ratio > upper_ratio_pm
                /\ chip.at_current.sys_clk > lower_clk_khz
        THEN adjust_clock(b, chip_id, -CLOCK_DELTA, t, cf, in)
        ELSE [a |-> reset, r |-> FALSE]

add_nonce_bad(a, chip_id, t, cf, in) ==
    LET b == [a EXCEPT !.chips[chip_id].hw_errors = @ + 1,
                       !.chips[chip_id].at_current.shares_nok = @ + 1]
        chip == b.chips[chip_id]
        ratio == get_nonce_ratio(chip)
        reset == [b EXCEPT !.chips[chip_id] = reset_nonce_stats(@, t, cf.inf_int)]
    IN  IF chip.at_current.shares_nok < BAD_NONCE_COUNT THEN [a |-> b, r |-> FALSE]
        ELSE IF ratio < 0 THEN [a |-> b, r |-> FALSE]
        ELSE IF ~cf.enable_auto_tune THEN [a |-> b, r |-> FALSE]
        ELSE IF ratio > upper_ratio_pm
                /\ chip.at_current.sys_clk > lower_clk_khz
        THEN adjust_clock(b, chip_id, -CLOCK_DELTA, t, cf, in)
        ELSE [a |-> reset, r |-> FALSE]

check_uptune(a, chip_id, t, cf, in) ==
    LET chip == a.chips[chip_id]
        ratio == get_nonce_ratio(chip)
        reset == [a EXCEPT !.chips[chip_id] = reset_nonce_stats(@, t, cf.inf_int)]
    IN  IF chip.at_current.sys_clk >= upper_clk_khz THEN [a |-> a, r |-> FALSE]
        ELSE IF chip.at_current.end_time > t THEN [a |-> a, r |-> FALSE]
        ELSE IF ratio < 0 THEN [a |-> a, r |-> FALSE]
        ELSE IF ~cf.enable_auto_tune THEN [a |-> a, r |-> FALSE]
        ELSE IF ratio < lower_ratio_pm
        THEN adjust_clock(a, chip_id, CLOCK_DELTA, t, cf, in)
        ELSE [a |-> reset, r |-> FALSE]

\* add_nonce_good counting the share alone
add_nonce_good_nocount(a, chip_id, t, cf, in) ==
    LET b == [a EXCEPT !.chips[chip_id].at_current.shares_ok = @ + 1]
        chip == b.chips[chip_id]
    IN  IF chip.at_current.sys_clk <= chip.at_prev.sys_clk
        THEN [a |-> b, r |-> FALSE]
        ELSE check_uptune(b, chip_id, t, cf, in)

add_nonce_good(a, chip_id, t, cf, in) ==
    LET b == [a EXCEPT !.chips[chip_id].nonces_found = @ + 1,
                       !.chips[chip_id].at_current.shares_ok = @ + 1]
        chip == b.chips[chip_id]
    IN  IF chip.at_current.sys_clk <= chip.at_prev.sys_clk
        THEN [a |-> b, r |-> FALSE]
        ELSE check_uptune(b, chip_id, t, cf, in)

(********** job scheduler *)
(***************************************************************************)
(* set_work: wj_ok is whether WRITE_JOB is acknowledged.  r is the C       *)
(* return value: a nonce range was finished (the slot was occupied).       *)
(***************************************************************************)
\* set_work advancing last_queued_id after a failed write too
set_work_advance(a, chip_id, work, wj_ok, t) ==
    LET lqi == a.chips[chip_id].last_queued_id
        job_id == lqi + 1
        old == a.chips[chip_id].work[lqi]
        b == IF old # NULL
             THEN [work_completed(a, old) EXCEPT !.chips[chip_id].work[lqi] = NULL]
             ELSE a
        c == Spi(b, "WRITE_JOB", chip_id, job_id)
    IN  [a |-> IF ~wj_ok
               THEN [disable_chip(work_completed(c, work), chip_id, t)
                        EXCEPT !.chips[chip_id].last_queued_id = (lqi + 1) % 4]
               ELSE [c EXCEPT !.chips[chip_id].work[lqi] = work,
                              !.chips[chip_id].last_queued_id = (lqi + 1) % 4],
         r |-> (old # NULL)]

set_work(a, chip_id, work, wj_ok, t) ==
    LET lqi == a.chips[chip_id].last_queued_id
        job_id == lqi + 1
        old == a.chips[chip_id].work[lqi]
        b == IF old # NULL
             THEN [work_completed(a, old) EXCEPT !.chips[chip_id].work[lqi] = NULL]
             ELSE a
        c == Spi(b, "WRITE_JOB", chip_id, job_id)
    IN  [a |-> IF ~wj_ok
               THEN disable_chip(work_completed(c, work), chip_id, t)
               ELSE [c EXCEPT !.chips[chip_id].work[lqi] = work,
                              !.chips[chip_id].last_queued_id = (lqi + 1) % 4],
         r |-> (old # NULL)]

\* range_done crediting a range twice
range_done_twice(a, chip_id) ==
    [a EXCEPT !.chips[chip_id].nonce_ranges_done = @ + 1,
              !.nonce_ranges_processed = @ + 2]

\* a completed nonce range is credited to chip and chain
range_done(a, chip_id) ==
    [a EXCEPT !.chips[chip_id].nonce_ranges_done = @ + 1,
              !.nonce_ranges_processed = @ + 1]

\* case 1 of the qstate switch (also reached by falling through case 0)
load_case1(a, chip_id, wj_ok, t) ==
    LET work == wq_front(a.active_wq)
        d == [a EXCEPT !.active_wq = wq_dequeue(@)]
        s == set_work(d, chip_id, work, wj_ok, t)
    IN  IF work = NULL THEN d
        ELSE IF s.r THEN range_done(s.a, chip_id) ELSE s.a

\* case 0 of the qstate switch ending in a break
load_case0_break(a, chip_id, wj1_ok, wj2_ok, t) ==
    LET work == wq_front(a.active_wq)
        d == [a EXCEPT !.active_wq = wq_dequeue(@)]
        s == set_work(d, chip_id, work, wj1_ok, t)
    IN  IF work = NULL THEN d
        ELSE IF s.r THEN range_done(s.a, chip_id) ELSE s.a

\* case 0 of the qstate switch
load_case0(a, chip_id, wj1_ok, wj2_ok, t) ==
    LET work == wq_front(a.active_wq)
        d == [a EXCEPT !.active_wq = wq_dequeue(@)]
        s == set_work(d, chip_id, work, wj1_ok, t)
    IN  IF work = NULL THEN d
        ELSE load_case1(IF s.r THEN range_done(s.a, chip_id) ELSE s.a,
                        chip_id, wj2_ok, t)

(***************************************************************************)
(* Body of the per-chip load loop of A1_scanwork for chip c, after the     *)
(* work_restart check.  in.rr_ok: READ_REG answered; in.qstate: rx[5] & 3; *)
(* in.wj1_ok, in.wj2_ok: the WRITE_JOBs acknowledged.                      *)
(***************************************************************************)
load_chip(a, c, in, t) ==
    IF is_chip_disabled(a, c) THEN a
    ELSE LET b == Spi(a, "READ_REG", c, 0)
         IN  IF ~in.rr_ok THEN disable_chip(b, c, t)
             ELSE IF in.qstate = 3 THEN b
             ELSE IF in.qstate = 2 THEN b
             ELSE IF in.qstate = 0
             THEN load_case0(b, c, in.wj1_ok, in.wj2_ok, t)
             ELSE load_case1(b, c, in.wj2_ok, t)

(********** board selector (CoinCraft Blade) *)
\* the byte ~(0x80 >> board) written to the enable port
EnableByte(board) == 255 - (128 \div (2 ^ board))

(***************************************************************************)
(* ccb_select after mutex_lock: i2c is the outcome of the two writes to    *)
(* register 0x03: "ok", "fail1" (the first write fails) or "fail2" (the    *)
(* second one does).  r is the C return value.                             *)
(***************************************************************************)
ccb_select(s, chain, i2c) ==
    IF s.active_chain = chain THEN [s |-> s, r |-> TRUE]
    ELSE IF s.active_board = chain \div 2
    THEN [s |-> [s EXCEPT !.active_chain = chain], r |-> TRUE]
    ELSE [s |-> [s EXCEPT !.active_chain = chain,
                          !.active_board = chain \div 2,
                          !.board_mask = 2 ^ (chain \div 2),
                          !.port1 = IF i2c = "ok" THEN EnableByte(chain \div 2)
                                    ELSE IF i2c = "fail2" THEN 255
                                    ELSE @],
          r |-> (i2c = "ok")]

(***************************************************************************)
(* ccb_get_temp(0): in.open_ok, in.read_ok: the sensor could be opened and *)
(* read; in.raw: the byte read.                                            *)
(***************************************************************************)
TempFix(raw) ==
    IF raw > 100
    THEN IF raw >= 128 THEN raw - 128 ELSE 0
    ELSE raw

ccb_get_temp(s, in) ==
    IF s.active_chain % 2 = 1
    THEN [s |-> s, r |-> s.last_temp[s.active_board]]
    ELSE IF ~in.open_ok THEN [s |-> s, r |-> 0]
    ELSE LET retval == TempFix(IF in.read_ok THEN in.raw ELSE 0)
         IN  [s |-> [s EXCEPT !.last_temp[s.active_board] = retval],
              r |-> retval]

(********** chain bring-up *)
ZeroStats ==
    [shares_ok |-> 0, shares_nok |-> 0, start_time |-> 0, end_time |-> 0,
     sys_clk |-> 0]

\* a chip as calloc leaves it
ZeroChip ==
    [num_cores |-> 0, last_queued_id |-> 0, work |-> [j \in 0..3 |-> NULL],
     hw_errors |-> 0, stales |-> 0, nonces_found |-> 0,
     nonce_ranges_done |-> 0, cooldown_begin |-> 0, fail_count |-> 0,
     disabled |-> FALSE, at_prev |-> ZeroStats, at_current |-> ZeroStats]

(***************************************************************************)
(* check_chip for chip_id = i + 1.  in.bypass: the chip's bit is set in    *)
(* chip_bitmask; in.rr_ok: READ_REG answered; in.cores: rx[7];             *)
(* in.wr_ok, in.lock: answers to the re-PLL of a weak or broken chip.      *)
(***************************************************************************)
\* check_chip disabling a weak chip like a broken one
check_chip_weakoff(a, chip_id, in, t, cf) ==
    LET a0 == [a EXCEPT !.chips[chip_id].at_current.sys_clk = a.sys_clk]
        a1 == [a0 EXCEPT !.chips[chip_id] =
                  reset_nonce_stats(reset_nonce_stats(@, t, cf.inf_int),
                                    t, cf.inf_int)]
        off == [a1 EXCEPT !.chips[chip_id].num_cores = 0,
                          !.chips[chip_id].disabled = TRUE]
        rd == Spi(a1, "READ_REG", chip_id, 0)
        found == [rd EXCEPT !.chips[chip_id].num_cores = in.cores,
                            !.num_cores = @ + in.cores]
        broken == Spi(set_pll_config(found, chip_id, BROKEN_CHIP_SYS_CLK, in).a,
                      "READ_REG", chip_id, 0)
        weak == Spi(set_pll_config(found, chip_id, WEAK_CHIP_SYS_CLK, in).a,
                    "READ_REG", chip_id, 0)
    IN  IF in.bypass THEN off
        ELSE IF ~in.rr_ok
        THEN [rd EXCEPT !.chips[chip_id].num_cores = 0,
                        !.chips[chip_id].disabled = TRUE]
        ELSE IF in.cores < BROKEN_CHIP_THRESHOLD
        THEN [broken EXCEPT !.chips[chip_id].disabled = TRUE,
                            !.num_cores = @ - in.cores]
        ELSE IF in.cores < WEAK_CHIP_THRESHOLD
        THEN [weak EXCEPT !.chips[chip_id].disabled = TRUE]
        ELSE found

\* check_chip leaving a broken chip's cores in the chain's count
check_chip_keepcores(a, chip_id, in, t, cf) ==
    LET a0 == [a EXCEPT !.chips[chip_id].at_current.sys_clk = a.sys_clk]
        a1 == [a0 EXCEPT !.chips[chip_id] =
                  reset_nonce_stats(reset_nonce_stats(@, t, cf.inf_int),
                                    t, cf.inf_int)]
        off == [a1 EXCEPT !.chips[chip_id].num_cores = 0,
                          !.chips[chip_id].disabled = TRUE]
        rd == Spi(a1, "READ_REG", chip_id, 0)
        found == [rd EXCEPT !.chips[chip_id].num_cores = in.cores,
                            !.num_cores = @ + in.cores]
        broken == Spi(set_pll_config(found, chip_id, BROKEN_CHIP_SYS_CLK, in).a,
                      "READ_REG", chip_id, 0)
        weak == Spi(set_pll_config(found, chip_id, WEAK_CHIP_SYS_CLK, in).a,
                    "READ_REG", chip_id, 0)
    IN  IF in.bypass THEN off
        ELSE IF ~in.rr_ok
        THEN [rd EXCEPT !.chips[chip_id].num_cores = 0,
                        !.chips[chip_id].disabled = TRUE]
        ELSE IF in.cores < BROKEN_CHIP_THRESHOLD
        THEN [broken EXCEPT !.chips[chip_id].disabled = TRUE]
        ELSE IF in.cores < WEAK_CHIP_THRESHOLD THEN weak
        ELSE found

check_chip(a, chip_id, in, t, cf) ==
    LET a0 == [a EXCEPT !.chips[chip_id].at_current.sys_clk = a.sys_clk]
        a1 == [a0 EXCEPT !.chips[chip_id] =
                  reset_nonce_stats(reset_nonce_stats(@, t, cf.inf_int),
                                    t, cf.inf_int)]
        off == [a1 EXCEPT !.chips[chip_id].num_cores = 0,
                          !.chips[chip_id].disabled = TRUE]
        rd == Spi(a1, "READ_REG", chip_id, 0)
        found == [rd EXCEPT !.chips[chip_id].num_cores = in.cores,
                            !.num_cores = @ + in.cores]
        broken == Spi(set_pll_config(found, chip_id, BROKEN_CHIP_SYS_CLK, in).a,
                      "READ_REG", chip_id, 0)
        weak == Spi(set_pll_config(found, chip_id, WEAK_CHIP_SYS_CLK, in).a,
                    "READ_REG", chip_id, 0)
    IN  IF in.bypass THEN off
        ELSE IF ~in.rr_ok
        THEN [rd EXCEPT !.chips[chip_id].num_cores = 0,
                        !.chips[chip_id].disabled = TRUE]
        ELSE IF in.cores < BROKEN_CHIP_THRESHOLD
        THEN [broken EXCEPT !.chips[chip_id].disabled = TRUE,
                            !.num_cores = @ - in.cores]
        ELSE IF in.cores < WEAK_CHIP_THRESHOLD THEN weak
        ELSE found

\* the chain of n chips after memset, calloc of the chips and the broadcast
\* PLL configuration, before the chips are checked
ZeroChain(chain_id, n, sys_clk) ==
    [chain_id |-> chain_id, num_chips |-> n, num_active_chips |-> n,
     num_cores |-> 0, chips |-> [k \in 1..n |-> ZeroChip],
     lock |-> FALSE,
     active_wq |-> [num_elems |-> 0, list |-> <<>>],
     temp |-> 0, last_temp_time |-> 0, sys_clk |-> sys_clk,
     nonce_ranges_processed |-> 0,
     hw_clk |-> [k \in 1..n |-> sys_clk],
     spi |-> <<>>, log_err |-> FALSE,
     completed |-> [w \in 1..MaxWorks |-> 0]]

(***************************************************************************)
(* init_A1_chain on its successful path, from the broadcast PLL            *)
(* configuration on: n chips detected, all per-chip state zeroed, then     *)
(* check_chip for every chip.  ins[k] are the inputs of check_chip for     *)
(* chip k.                                                                 *)
(***************************************************************************)
init_A1_chain(chain_id, n, sys_clk, ins, t, cf) ==
    LET z == ZeroChain(chain_id, n, sys_clk)
        RECURSIVE cc(_, _)
        cc(a, k) == IF k > n THEN a ELSE cc(check_chip(a, k, ins[k], t, cf), k + 1)
    IN  [cc(z, 1) EXCEPT !.spi = <<>>]

(***************************************************************************)
(* Nonce pump: one iteration of the drain loop of A1_scanwork after        *)
(* get_nonce returned a result frame res = [job_id, chip_id].              *)
(* good: answer of the framework's submit_nonce.  A job_id outside 1..4    *)
(* passes the check (job_id < 1 && job_id > 4) and indexes work[] out of   *)
(* its bounds; oob is what that read and its use produce: "null" (the      *)
(* word read is 0), "crash" (the process dies in submit_nonce), "bad" or   *)
(* "good" (submit_nonce answers for the garbage; the penalty is            *)
(* oob_diff).  r is FALSE when the process died.                           *)
(***************************************************************************)
drain_result(a, res, good, oob, oob_diff, in, t, cf) ==
    LET chip_id == res.chip_id
        inrange == res.job_id >= 1 /\ res.job_id <= 4
        work == IF inrange THEN a.chips[chip_id].work[res.job_id - 1]
                ELSE IF oob = "null" THEN NULL
                ELSE [id |-> 0, device_diff |-> oob_diff]
        isnull == IF inrange THEN work = NULL ELSE oob = "null"
        ok == IF inrange THEN good ELSE oob = "good"
        pen == [a EXCEPT !.nonce_ranges_processed = @ - work.device_diff]
    IN  IF chip_id < 1 \/ chip_id > a.num_active_chips THEN [a |-> a, r |-> TRUE]
        ELSE IF isnull
        THEN [a |-> [a EXCEPT !.chips[chip_id].stales = @ + 1], r |-> TRUE]
        ELSE IF ~inrange /\ oob = "crash" THEN [a |-> a, r |-> FALSE]
        ELSE IF ~ok
        THEN [a |-> add_nonce_bad(pen, chip_id, t, cf, in).a, r |-> TRUE]
        ELSE [a |-> add_nonce_good(a, chip_id, t, cf, in).a, r |-> TRUE]

(***************************************************************************)
(* Body of A1_flush_work under the chain mutex: abort_work, then for every *)
(* chip check_uptune or flush_chip, then the queue is given back.          *)
(* abort_ok: the RESET broadcast is acknowledged; ins[k]: answers of chip  *)
(* k to a clock change.                                                    *)
(***************************************************************************)
flush_work_body(a, abort_ok, ins, t, cf) ==
    LET b == [Spi(a, "RESET", 0, 0) EXCEPT !.log_err = ~abort_ok]
        RECURSIVE chipsl(_, _)
        chipsl(c, k) ==
            IF k > c.num_active_chips THEN c
            ELSE LET u == check_uptune(c, k, t, cf, ins[k])
                 IN  chipsl(IF u.r THEN u.a ELSE flush_chip(u.a, k), k + 1)
        RECURSIVE wql(_)
        wql(c) ==
            IF c.active_wq.num_elems > 0
            THEN wql([work_completed(c, wq_front(c.active_wq))
                         EXCEPT !.active_wq = wq_dequeue(@)])
            ELSE c
    IN  wql(chipsl(b, 1))

\* ret = nonce_ranges_processed; ret <<= 32
Shl32(x) == [hi |-> x, lo |-> 0]

(********** job creation *)
\* the bytes a uint32 store leaves in the job buffer (little-endian host)
LE32(n) ==
    <<n % 256, (n \div 256) % 256, (n \div 65536) % 256, n \div 16777216>>

\* get_target's static data and create_job's static job buffer (its target
\* field, bytes 50..53) at program start
StaticJob ==
    [target |-> <<255, 255, 0, 29>>, st |-> [prev_diff |-> 0, n_bits |-> 0]]

(***************************************************************************)
(* get_target: st is its static data; the double f is the fraction         *)
(* num / den (rounding of the division left out), diff an integer >= 1.    *)
(***************************************************************************)
get_target(st, diff) ==
    LET RECURSIVE up(_, _)
        up(shift, num) ==
            IF num < 32768 * diff THEN up(shift - 1, num * 256)
            ELSE [shift |-> shift, num |-> num]
        RECURSIVE down(_, _, _)
        down(shift, num, den) ==
            IF num >= 8388608 * den THEN down(shift + 1, num, den * 256)
            ELSE [shift |-> shift, num |-> num, den |-> den]
        u == up(29, 65535)
        d == down(u.shift, u.num, diff)
        n_bits == (d.num \div d.den) + d.shift * 16777216
    IN  IF diff = st.prev_diff THEN [st |-> st, r |-> st.n_bits]
        ELSE [st |-> [prev_diff |-> diff, n_bits |-> n_bits], r |-> n_bits]

\* create_job clamping nothing
create_job_unclamped(jb, od, work) ==
    IF od # 0
    THEN LET g == get_target(jb.st, work.device_diff)
         IN  [target |-> LE32(g.r), st |-> g.st]
    ELSE jb

\* create_job, the target field: jb is the static data before the call, od
\* is A1_config_options.override_diff
create_job(jb, od, work) ==
    IF od # 0
    THEN LET diff == IF od # -1 /\ od < work.device_diff
                     THEN od ELSE work.device_diff
             g == get_target(jb.st, diff)
         IN  [target |-> LE32(g.r), st |-> g.st]
    ELSE jb

(***************************************************************************)
(* State.                                                                  *)
(***************************************************************************)
VARIABLES
    a1,       \* chain_id -> struct A1_chain (with its chips)
    cgpu,     \* chain_id -> the framework's device: deven, temp
    thr,      \* chain_id -> the chain's driver thread: position, work_restart
    sel,      \* the board selector: mutex owner, active chain/board, cache
    now,      \* get_current_ms()
    fw,       \* the framework and the hardware: works handed out, results
    cfg,      \* configuration: enable_auto_tune, cutofftemp, build
    crashed,  \* the process died
    pf        \* a function of the driver called on its own: its static
              \* data, its arguments and what it returned

vars == <<a1, cgpu, thr, sel, now, fw, cfg, crashed, pf>>

Chains == DOMAIN a1
NoThread == -1

Bool == {TRUE, FALSE}
\* answers of a chip to RESET, WRITE_REG and the lock polls of a clock
\* change; an answer that is not asked for once an earlier one is a failure
\* is fixed
PllIns ==
    {x \in [reset_ok : Bool, wr_ok : Bool, lock : {"ok", "timeout"}] :
        /\ (~x.reset_ok => x.wr_ok /\ x.lock = "ok")
        /\ (~x.wr_ok => x.lock = "ok")}
DefIn == [reset_ok |-> TRUE, wr_ok |-> TRUE, lock |-> "ok"]
\* device_diff of the works handed out and of garbage read as a work
DiffSet == {1, 2}
\* the work item with the given id
WorkOf(id) == [id |-> id, device_diff |-> 1 + (id % 2)]
\* job ids of result frames (the 4-bit field holds 0..15)
JobIds == {0, 1, 2, 5}
\* raw sensor bytes
RawTemps == {96}
OobOutcomes == {"null", "crash", "bad", "good"}

(***************************************************************************)
(* Initial states: the selector after the detection loop probed every      *)
(* chain id, every chain after init_A1_chain.                              *)
(***************************************************************************)
SelStatic ==
    [lock |-> NoThread, active_chain |-> 255, active_board |-> 255,
     board_mask |-> 255, port1 |-> 255,
     last_temp |-> [b \in 0..(CCB_MAX_CHAINS \div 2 - 1) |-> 0]]

RECURSIVE SelProbe(_, _)
SelProbe(s, board_id) ==
    IF board_id >= CCB_MAX_CHAINS THEN s
    ELSE SelProbe(ccb_select(s, board_id, "ok").s, board_id + 1)

\* check_chip inputs of the chips found at bring-up
Bypassed == [bypass |-> TRUE, rr_ok |-> TRUE, cores |-> 0, wr_ok |-> TRUE, lock |-> "ok"]
Unreadable == [bypass |-> FALSE, rr_ok |-> FALSE, cores |-> 0, wr_ok |-> TRUE, lock |-> "ok"]
Found(n) == [bypass |-> FALSE, rr_ok |-> TRUE, cores |-> n, wr_ok |-> TRUE, lock |-> "ok"]
BringUps == {Bypassed, Unreadable, Found(20), Found(28), Found(32)}

\* a chain that has counted w good nonces on each of its usable chips
Warm(a, w) ==
    [a EXCEPT !.chips = [k \in DOMAIN @ |->
        IF @[k].disabled THEN @[k]
        ELSE [@[k] EXCEPT !.nonces_found = w, !.at_current.shares_ok = w]]]

WarmShares == {0, MIN_NUM_NONCES}
SYS_CLK_KHZ == 800000
CUTOFF_TEMP == 95
Configs ==
    [enable_auto_tune : Bool, cutofftemp : {CUTOFF_TEMP}, inf_int : {INT_MIN, INT_MAX}]

\* no function is called on its own
NoCall == [fn |-> "none"]

IdleThread ==
    [pc |-> "idle", work_restart |-> FALSE, i |-> 0, ret |-> Shl32(0),
     queue_full |-> FALSE]

InitCommon ==
    /\ now = BootMs
    /\ sel = SelProbe(SelStatic, 0)
    /\ crashed = FALSE

\* what the environment may still do: works to hand out, results to
\* deliver, clock advances, I2C write failures, work_restart requests,
\* commands a chip leaves unanswered
Budget(w, n, t, f, r, s) ==
    [next |-> 1, works |-> w, nonces |-> n, ticks |-> t, i2c_faults |-> f,
     restarts |-> r, chip_faults |-> s, xfer_faults |-> 0]

\* the budget b and x SPI transfers that fail
WithXfer(b, x) == [b EXCEPT !.xfer_faults = x]

(***************************************************************************)
(* The chains chs, each of n chips of the given kinds, have been brought   *)
(* up and have counted w good nonces per usable chip; auto-tuning is on or *)
(* off as at says and the environment has the budget b.                    *)
(***************************************************************************)
Start(chs, n, kinds, at, w, b) ==
    /\ InitCommon
    /\ cfg \in [enable_auto_tune : {at}, cutofftemp : {CUTOFF_TEMP},
                inf_int : {INT_MIN, INT_MAX}]
    /\ \E ins \in [chs -> [1..n -> kinds]] :
          a1 = [c \in chs |->
                   Warm(init_A1_chain(c, n, SYS_CLK_KHZ, ins[c], BootMs, cfg), w)]
    /\ fw = b
    /\ cgpu = [c \in chs |-> [deven |-> "ENABLED", temp |-> 0]]
    /\ thr = [c \in chs |-> IdleThread]
    /\ pf = NoCall

(***************************************************************************)
(* As Start, with sys_clk_khz configured as clk and ok good and nok bad    *)
(* nonces counted on each usable chip.                                     *)
(***************************************************************************)
WarmAt(a, ok, nok) ==
    [a EXCEPT !.chips = [k \in DOMAIN @ |->
        IF @[k].disabled THEN @[k]
        ELSE [@[k] EXCEPT !.nonces_found = ok, !.hw_errors = nok,
                          !.at_current.shares_ok = ok,
                          !.at_current.shares_nok = nok]]]

StartAt(chs, n, kinds, at, ok, nok, clk, b) ==
    /\ InitCommon
    /\ cfg \in [enable_auto_tune : {at}, cutofftemp : {CUTOFF_TEMP},
                inf_int : {INT_MIN, INT_MAX}]
    /\ \E ins \in [chs -> [1..n -> kinds]] :
          a1 = [c \in chs |->
                   WarmAt(init_A1_chain(c, n, clk, ins[c], BootMs, cfg), ok, nok)]
    /\ fw = b
    /\ cgpu = [c \in chs |-> [deven |-> "ENABLED", temp |-> 0]]
    /\ thr = [c \in chs |-> IdleThread]
    /\ pf = NoCall

(***************************************************************************)
(* As StartAt for chain 0 of one chip, the chip tuned down at bring-up     *)
(* time (adjust_clock with -CLOCK_DELTA, all commands answered) and ok     *)
(* good nonces counted since.                                              *)
(***************************************************************************)
StartDown(ok, clk, b) ==
    /\ InitCommon
    /\ cfg \in [enable_auto_tune : {TRUE}, cutofftemp : {CUTOFF_TEMP},
                inf_int : {INT_MIN, INT_MAX}]
    /\ a1 = [c \in {0} |->
                [WarmAt(adjust_clock(
                            init_A1_chain(c, 1, clk, [k \in {1} |-> Found(32)],
                                          BootMs, cfg),
                            1, -CLOCK_DELTA, BootMs, cfg, DefIn).a, ok, 0)
                    EXCEPT !.spi = <<>>]]
    /\ fw = b
    /\ cgpu = [c \in {0} |-> [deven |-> "ENABLED", temp |-> 0]]
    /\ thr = [c \in {0} |-> IdleThread]
    /\ pf = NoCall

\* one chain of one chip: a pass being aborted, the clock advancing, a
\* transfer failing
Covering ==
    \/ Start({0}, 1, {Found(32)}, FALSE, 0,
             Budget(1, MaxNonces, 0, 0, MaxRestarts, 0))
    \/ Start({0}, 1, {Found(32)}, FALSE, 0, Budget(0, 0, 1, 0, 0, 0))
    \/ Start({0}, 1, {Found(32)}, FALSE, 0,
             WithXfer(Budget(0, 0, 0, 0, 0, 0), MaxXferFaults))

\* configured system clocks: next to the tuner's bounds, the default, and
\* beyond the upper bound
TuneClks ==
    {lower_clk_khz, lower_clk_khz + 2000, SYS_CLK_KHZ, upper_clk_khz - 2000,
     upper_clk_khz + 100000}

\* one chain of one chip with auto-tuning on, about to raise or to lower
\* its clock, tuned down before, or one bad nonce from BAD_NONCE_COUNT with
\* too few shares for a ratio or with a ratio of upper_ratio_pm
InitTune ==
    \/ Covering
    \/ \E clk \in TuneClks :
          \/ StartAt({0}, 1, {Found(32)}, TRUE, MIN_NUM_NONCES, 0, clk,
                     Budget(1, MaxNonces, 1, 0, 0, 1))
          \/ StartAt({0}, 1, {Found(32)}, TRUE,
                     MIN_NUM_NONCES - BAD_NONCE_COUNT + 1, BAD_NONCE_COUNT - 1,
                     clk, Budget(1, MaxNonces, 0, 0, 0, 1))
    \/ StartDown(MIN_NUM_NONCES, SYS_CLK_KHZ, Budget(0, MaxNonces, 2, 0, 0, 0))
    \/ \E ok \in {0, 50 * BAD_NONCE_COUNT - BAD_NONCE_COUNT} :
          StartAt({0}, 1, {Found(32)}, TRUE, ok, BAD_NONCE_COUNT - 1,
                  SYS_CLK_KHZ, Budget(1, MaxNonces, 0, 0, 0, 0))

\* one chain: the job scheduler at work, the queue filling up, the tuner
\* at a flush, a pass being aborted
Init ==
    \/ Start({0}, 1, BringUps, FALSE, 0,
             Budget(MaxWorks, MaxNonces, 0, 0, 0, 1))
    \/ Start({0}, MaxChips, {Unreadable, Found(32)}, FALSE, 0,
             Budget(2 * MaxChips, 0, 0, 0, 0, 1))
    \/ Start({0}, MaxChips, {Found(28), Found(32)}, TRUE, MIN_NUM_NONCES,
             Budget(MaxWorksTune, 0, 0, 0, 0, 1))
    \/ Start({0}, MaxChips, {Found(32)}, FALSE, 0,
             Budget(1, 0, 0, 0, MaxRestarts, 0))
    \/ Start({0}, 1, {Found(32)}, FALSE, 0,
             Budget(1, MaxNonces, 0, 0, MaxRestarts, 0))
    \/ Start({0}, 1, {Found(32)}, FALSE, 0, Budget(0, 0, 1, 0, 0, 0))
    \/ Start({0}, MaxChips, {Unreadable, Found(32)}, FALSE, 0,
             WithXfer(Budget(1, 0, 1, 0, 0, 1), MaxXferFaults))

\* one chain over the time it takes a chip to cool down and to be given
\* up: one chip, two chips, MaxChips chips over one cooldown, and a chain
\* that is handed work, delivers results and is restarted meanwhile
InitCool ==
    \/ Start({0}, 1, BringUps, FALSE, 0,
             Budget(0, 0, MaxTicks, 0, 0, MaxChipFaults))
    \/ Start({0}, 2, BringUps, FALSE, 0,
             Budget(0, 0, MaxTicks, 0, 0, MaxChipFaults + 1))
    \/ Start({0}, MaxChips, BringUps, FALSE, 0, Budget(0, 0, 1, 0, 0, 2))
    \/ Start({0}, 1, {Found(32)}, FALSE, 0, Budget(1, MaxNonces, 1, 0, 0, 1))
    \/ Start({0}, 1, {Found(32)}, FALSE, 0, Budget(1, 0, 0, 0, MaxRestarts, 0))
    \/ Start({0}, 1, {Found(32)}, FALSE, 0,
             WithXfer(Budget(0, 0, 0, 0, 0, 0), MaxXferFaults))

\* two chains on two boards, one selector
InitConc ==
    \/ Start({0, 2}, 1, {Found(32)}, FALSE, 0, Budget(1, 0, 0, 0, 0, 0))
    \/ Start({0, 2}, 1, {Found(32)}, FALSE, 0, Budget(0, MaxNonces, 0, 0, 0, 0))
    \/ Start({0, 2}, 1, {Found(32)}, FALSE, 0, Budget(0, 0, 1, 0, 0, 0))
    \/ Start({0, 2}, 1, {Found(32)}, FALSE, 0, Budget(0, 0, 0, MaxFaults, 0, 0))
    \/ Start({0, 2}, 1, {Found(32)}, FALSE, 0, Budget(0, 0, 0, 0, MaxRestarts, 0))
    \/ Start({0, 2}, 1, {Found(32)}, FALSE, 0, Budget(0, 0, 0, 0, 0, 1))
    \/ Start({0, 2}, 1, {Found(32)}, FALSE, 0,
             WithXfer(Budget(0, 0, 0, 0, 0, 0), MaxXferFaults))

(***************************************************************************)
(* The environment: the clock, which advances while the threads sleep      *)
(* between calls, and the framework raising and clearing work_restart.     *)
(***************************************************************************)
Tick ==
    /\ ~crashed
    /\ \A c \in Chains : thr[c].pc = "idle"
    /\ fw.ticks > 0
    /\ now' = now + TickMs
    /\ fw' = [fw EXCEPT !.ticks = @ - 1]
    /\ UNCHANGED <<a1, cgpu, thr, sel, cfg, crashed, pf>>

\* (A1_queue_full and A1_flush_work do not read the flag: raising it while
\* they run is raising it when they have returned)
SetRestart(c) ==
    /\ ~crashed
    /\ thr[c].pc \in {"idle", "sw_select", "sw_lock", "sw_drain", "sw_load"}
    /\ ~thr[c].work_restart
    /\ fw.restarts > 0
    /\ thr' = [thr EXCEPT ![c].work_restart = TRUE]
    /\ fw' = [fw EXCEPT !.restarts = @ - 1]
    /\ UNCHANGED <<a1, cgpu, sel, now, cfg, crashed, pf>>

ClearRestart(c) ==
    /\ ~crashed
    /\ thr[c].pc = "idle"
    /\ thr[c].work_restart
    /\ thr' = [thr EXCEPT ![c].work_restart = FALSE]
    /\ UNCHANGED <<a1, cgpu, sel, now, fw, cfg, crashed, pf>>

\* the chain of thread c at the start of a step: the log of the step is empty
Begin(c) == [a1[c] EXCEPT !.spi = <<>>, !.log_err = FALSE]

\* thread c enters a driver function: earlier return values are gone
Call(c, pc) == [thr EXCEPT ![c].pc = pc, ![c].ret = Shl32(0), ![c].queue_full = FALSE]

\* outcomes of the I2C writes of a select
I2COutcomes == {"ok"} \cup (IF fw.i2c_faults > 0 THEN {"fail1", "fail2"} ELSE {})

\* the selector and the fault budget after thread c's ccb_select
Select(c, i2c) ==
    /\ sel' = [ccb_select(sel, c, i2c).s EXCEPT !.lock = c]
    /\ fw' = IF i2c = "ok" THEN fw ELSE [fw EXCEPT !.i2c_faults = @ - 1]

\* the commands unanswered in the answers to a clock change
PllCost(in) == IF in = DefIn THEN 0 ELSE 1

\* the fault budget after n more unanswered commands
Faulted(n) == [fw EXCEPT !.chip_faults = @ - n]

\* the inputs of a clock change of chip k, where one can happen
TunerIns(a, k) ==
    IF /\ cfg.enable_auto_tune
       /\ k \in DOMAIN a.chips
       /\ a.chips[k].at_current.shares_ok + a.chips[k].at_current.shares_nok + 1
              >= MIN_NUM_NONCES
    THEN {x \in PllIns : PllCost(x) <= fw.chip_faults}
    ELSE {DefIn}

(***************************************************************************)
(* A1_scanwork.                                                            *)
(***************************************************************************)
\* Scan_entry without the num_cores check
Scan_entry_nocores(c) ==
    /\ ~crashed
    /\ thr[c].pc = "idle"
    /\ a1' = [a1 EXCEPT ![c] = Begin(c)]
    /\ cgpu' = cgpu
    /\ thr' = IF thr[c].work_restart
              THEN Call(c, "idle")
              ELSE Call(c, "sw_select")
    /\ UNCHANGED <<sel, now, fw, cfg, crashed, pf>>

\* entry: the num_cores and work_restart checks
Scan_entry(c) ==
    /\ ~crashed
    /\ thr[c].pc = "idle"
    /\ a1' = [a1 EXCEPT ![c] = Begin(c)]
    /\ IF a1[c].num_cores = 0
       THEN /\ cgpu' = [cgpu EXCEPT ![c].deven = "DISABLED"]
            /\ thr' = Call(c, "idle")
       ELSE /\ cgpu' = cgpu
            /\ thr' = IF thr[c].work_restart
                      THEN Call(c, "idle")
                      ELSE Call(c, "sw_select")
    /\ UNCHANGED <<sel, now, fw, cfg, crashed, pf>>

\* Scan_select with a select that takes no mutex
Scan_select_nomutex(c) ==
    /\ ~crashed
    /\ thr[c].pc = "sw_select"
    /\ \E i2c \in I2COutcomes : Select(c, i2c)
    /\ a1' = [a1 EXCEPT ![c] = Begin(c)]
    /\ thr' = [thr EXCEPT ![c].pc = "sw_lock"]
    /\ UNCHANGED <<cgpu, now, cfg, crashed, pf>>

\* board_selector->select(a1->chain_id)
Scan_select(c) ==
    /\ ~crashed
    /\ thr[c].pc = "sw_select"
    /\ sel.lock = NoThread
    /\ \E i2c \in I2COutcomes : Select(c, i2c)
    /\ a1' = [a1 EXCEPT ![c] = Begin(c)]
    /\ thr' = [thr EXCEPT ![c].pc = "sw_lock"]
    /\ UNCHANGED <<cgpu, now, cfg, crashed, pf>>

\* answers of the temperature sensor: it cannot be opened, it cannot be
\* read, or it delivers a byte
TempIns ==
    {[open_ok |-> FALSE, read_ok |-> FALSE, raw |-> 0],
     [open_ok |-> TRUE, read_ok |-> FALSE, raw |-> 0]}
    \cup {[open_ok |-> TRUE, read_ok |-> TRUE, raw |-> r] : r \in RawTemps}

\* mutex_lock(&a1->lock) and the temperature update
Scan_lock(c) ==
    /\ ~crashed
    /\ thr[c].pc = "sw_lock"
    /\ ~a1[c].lock
    /\ IF a1[c].last_temp_time + TEMP_UPDATE_INT_MS < now
       THEN \E in \in TempIns :
               LET g == ccb_get_temp(sel, in)
               IN  /\ sel' = g.s
                   /\ a1' = [a1 EXCEPT ![c] = [Begin(c) EXCEPT
                                !.lock = TRUE, !.temp = g.r,
                                !.last_temp_time = now]]
                   /\ cgpu' = [cgpu EXCEPT ![c].temp = g.r]
       ELSE /\ a1' = [a1 EXCEPT ![c] = [Begin(c) EXCEPT !.lock = TRUE]]
            /\ UNCHANGED <<sel, cgpu>>
    /\ thr' = [thr EXCEPT ![c].pc = "sw_drain"]
    /\ UNCHANGED <<now, fw, cfg, crashed, pf>>

\* scanwork never throttling
throttled_never(a) == FALSE

\* cgpu->cutofftemp > 0 && a1->temp > cgpu->cutofftemp
throttled(a) == cfg.cutofftemp > 0 /\ a.temp > cfg.cutofftemp

(***************************************************************************)
(* The result frames the output queue may deliver and the answers to their *)
(* processing; answers that the processing of a frame does not consult     *)
(* are fixed.                                                              *)
(***************************************************************************)
DrainIns(a) ==
    UNION {
      {x \in [job_id : JobIds, chip_id : {k}, good : Bool, oob : OobOutcomes,
              d : DiffSet, in : TunerIns(a, k)] :
          LET inrange == x.job_id >= 1 /\ x.job_id <= 4
          IN  IF k > a.num_active_chips
              THEN x.job_id = 1 /\ x.good /\ x.oob = "null" /\ x.d = 1
              ELSE IF inrange
              THEN /\ x.oob = "null" /\ x.d = 1
                   /\ (a.chips[k].work[x.job_id - 1] = NULL
                          => x.good /\ x.in = DefIn)
              ELSE /\ x.good
                   /\ (x.oob # "bad" => x.d = 1)
                   /\ (x.oob \in {"null", "crash"} => x.in = DefIn)}
      : k \in 1..(a.num_active_chips + 1)}

\* the processing of the frame consults the answers x.in
DrainAsks(a, x) ==
    x.in # DefIn =>
        drain_result(a, x, x.good, x.oob, x.d, x.in, now, cfg)
            # drain_result(a, x, x.good, x.oob, x.d, DefIn, now, cfg)

\* one iteration of the loop polling queued results
Scan_drain(c) ==
    /\ ~crashed
    /\ thr[c].pc = "sw_drain"
    /\ IF thr[c].work_restart
       THEN /\ a1' = [a1 EXCEPT ![c] = Begin(c)]
            /\ thr' = [thr EXCEPT ![c].pc = "sw_abort"]
            /\ UNCHANGED <<fw, crashed>>
       ELSE LET b == Spi(Begin(c), "READ_RESULT", 0, 0)
            IN  \/ /\ a1' = [a1 EXCEPT ![c] = b]
                   /\ thr' = IF throttled(b)
                             THEN [thr EXCEPT ![c].pc = "sw_done"]
                             ELSE [thr EXCEPT ![c].pc = "sw_load",
                                              ![c].i = b.num_active_chips]
                   /\ UNCHANGED <<fw, crashed>>
                \/ /\ fw.nonces > 0
                   /\ \E x \in DrainIns(b) :
                         LET o == drain_result(
                                      Spi(b, "RESULT", x.chip_id, x.job_id),
                                      x, x.good, x.oob, x.d, x.in, now, cfg)
                         IN  /\ DrainAsks(b, x)
                             /\ a1' = [a1 EXCEPT ![c] = o.a]
                             /\ crashed' = ~o.r
                             /\ fw' = [Faulted(PllCost(x.in)) EXCEPT
                                          !.nonces = @ - 1]
                   /\ thr' = thr
    /\ UNCHANGED <<cgpu, sel, now, cfg, pf>>

\* answers of a chip in the load loop: READ_REG fails, or it delivers a
\* qstate and the WRITE_JOBs that qstate leads to are answered
LoadAnswers ==
    {[rr_ok |-> FALSE, qstate |-> 3, wj1_ok |-> TRUE, wj2_ok |-> TRUE]}
    \cup {[rr_ok |-> TRUE, qstate |-> q, wj1_ok |-> TRUE, wj2_ok |-> TRUE] : q \in {2, 3}}
    \cup {[rr_ok |-> TRUE, qstate |-> 1, wj1_ok |-> TRUE, wj2_ok |-> w] : w \in Bool}
    \cup {[rr_ok |-> TRUE, qstate |-> 0, wj1_ok |-> v, wj2_ok |-> w] : v \in Bool, w \in Bool}

\* the commands unanswered in the answers in
LoadCost(in) ==
    (IF in.rr_ok THEN 0 ELSE 1) + (IF in.wj1_ok THEN 0 ELSE 1)
        + (IF in.wj2_ok THEN 0 ELSE 1)

\* the answers to the commands the iteration for chip k sends: a command
\* that is not sent is not left unanswered
LoadIns(a, k) ==
    {in \in LoadAnswers :
        /\ LoadCost(in) <= fw.chip_faults
        /\ \A f \in {"rr_ok", "wj1_ok", "wj2_ok"} :
              ~in[f] => load_chip(a, k, [in EXCEPT ![f] = TRUE], now)
                            # load_chip(a, k, in, now)}

\* Scan_load without the work_restart check
Scan_load_nocheck(c) ==
    /\ ~crashed
    /\ thr[c].pc = "sw_load"
    /\ \E in \in LoadIns(Begin(c), thr[c].i) :
          /\ a1' = [a1 EXCEPT ![c] = load_chip(Begin(c), thr[c].i, in, now)]
          /\ fw' = Faulted(LoadCost(in))
    /\ thr' = [thr EXCEPT ![c].i = @ - 1,
                          ![c].pc = IF thr[c].i - 1 > 0 THEN "sw_load"
                                    ELSE "sw_check"]
    /\ UNCHANGED <<cgpu, sel, now, cfg, crashed, pf>>

\* one iteration of the loop over the chips, chip thr[c].i
Scan_load(c) ==
    /\ ~crashed
    /\ thr[c].pc = "sw_load"
    /\ IF thr[c].work_restart
       THEN /\ a1' = [a1 EXCEPT ![c] = Begin(c)]
            /\ thr' = [thr EXCEPT ![c].pc = "sw_abort", ![c].i = 0]
            /\ fw' = fw
       ELSE /\ \E in \in LoadIns(Begin(c), thr[c].i) :
                  /\ a1' = [a1 EXCEPT ![c] =
                               load_chip(Begin(c), thr[c].i, in, now)]
                  /\ fw' = Faulted(LoadCost(in))
            /\ thr' = [thr EXCEPT ![c].i = @ - 1,
                                  ![c].pc = IF thr[c].i - 1 > 0 THEN "sw_load"
                                            ELSE "sw_check"]
    /\ UNCHANGED <<cgpu, sel, now, cfg, crashed, pf>>

\* the chips' answers to the probes check_disabled_chips sends: a chip
\* that is not probed leaves nothing unanswered
CheckIns(a) ==
    {oks \in [1..a.num_active_chips -> Bool] :
        /\ Cardinality({k \in DOMAIN oks : ~oks[k]}) <= fw.chip_faults
        /\ \A k \in DOMAIN oks :
              ~oks[k] => check_disabled_chip(a, k, FALSE, now)
                             # check_disabled_chip(a, k, TRUE, now)}

Scan_check(c) ==
    /\ ~crashed
    /\ thr[c].pc = "sw_check"
    /\ \E oks \in CheckIns(Begin(c)) :
          /\ a1' = [a1 EXCEPT ![c] = check_disabled_chips(Begin(c), oks, now)]
          /\ fw' = Faulted(Cardinality({k \in DOMAIN oks : ~oks[k]}))
    /\ thr' = [thr EXCEPT ![c].pc = "sw_done"]
    /\ UNCHANGED <<cgpu, sel, now, cfg, crashed, pf>>

\* Scan_unlock releasing the selector where the mutex is to be released
Scan_unlock_inverted(c) ==
    /\ ~crashed
    /\ thr[c].pc = "sw_done"
    /\ sel' = [sel EXCEPT !.lock = NoThread]
    /\ a1' = [a1 EXCEPT ![c] = Begin(c)]
    /\ thr' = [thr EXCEPT ![c].pc = "sw_release"]
    /\ UNCHANGED <<cgpu, now, fw, cfg, crashed, pf>>

\* done: mutex_unlock(&a1->lock)
Scan_unlock(c) ==
    /\ ~crashed
    /\ thr[c].pc = "sw_done"
    /\ a1' = [a1 EXCEPT ![c] = [Begin(c) EXCEPT !.lock = FALSE]]
    /\ thr' = [thr EXCEPT ![c].pc = "sw_release"]
    /\ UNCHANGED <<cgpu, sel, now, fw, cfg, crashed, pf>>

\* Scan_release reporting the accumulator whatever its sign
Scan_release_noclip(c) ==
    /\ ~crashed
    /\ thr[c].pc = "sw_release"
    /\ sel' = [sel EXCEPT !.lock = NoThread]
    /\ a1' = [a1 EXCEPT ![c] = [Begin(c) EXCEPT !.nonce_ranges_processed = 0]]
    /\ thr' = [thr EXCEPT ![c].pc = "idle",
                  ![c].ret = Shl32(a1[c].nonce_ranges_processed)]
    /\ UNCHANGED <<cgpu, now, fw, cfg, crashed, pf>>

\* board_selector->release() and the value returned
Scan_release(c) ==
    /\ ~crashed
    /\ thr[c].pc = "sw_release"
    /\ sel' = [sel EXCEPT !.lock = NoThread]
    /\ IF a1[c].nonce_ranges_processed < 0
       THEN /\ a1' = [a1 EXCEPT ![c] = Begin(c)]
            /\ thr' = [thr EXCEPT ![c].pc = "idle", ![c].ret = Shl32(0)]
       ELSE /\ a1' = [a1 EXCEPT ![c] = [Begin(c) EXCEPT
                                           !.nonce_ranges_processed = 0]]
            /\ thr' = [thr EXCEPT ![c].pc = "idle",
                          ![c].ret = Shl32(a1[c].nonce_ranges_processed)]
    /\ UNCHANGED <<cgpu, now, fw, cfg, crashed, pf>>

\* abort: mutex_unlock(&a1->lock)
Scan_abort_unlock(c) ==
    /\ ~crashed
    /\ thr[c].pc = "sw_abort"
    /\ a1' = [a1 EXCEPT ![c] = [Begin(c) EXCEPT !.lock = FALSE]]
    /\ thr' = [thr EXCEPT ![c].pc = "sw_abort_release"]
    /\ UNCHANGED <<cgpu, sel, now, fw, cfg, crashed, pf>>

\* abort: board_selector->release(); return 0
Scan_abort_release(c) ==
    /\ ~crashed
    /\ thr[c].pc = "sw_abort_release"
    /\ sel' = [sel EXCEPT !.lock = NoThread]
    /\ a1' = [a1 EXCEPT ![c] = Begin(c)]
    /\ thr' = [thr EXCEPT ![c].pc = "idle", ![c].ret = Shl32(0)]
    /\ UNCHANGED <<cgpu, now, fw, cfg, crashed, pf>>

(***************************************************************************)
(* A1_queue_full.                                                          *)
(***************************************************************************)
QueueFull_lock(c) ==
    /\ ~crashed
    /\ thr[c].pc = "idle"
    /\ ~a1[c].lock
    /\ a1' = [a1 EXCEPT ![c] = [Begin(c) EXCEPT !.lock = TRUE]]
    /\ thr' = Call(c, "qf_locked")
    /\ UNCHANGED <<cgpu, sel, now, fw, cfg, crashed, pf>>

\* the works get_queued may return: none, or the next work item
GetQueued ==
    {NULL} \cup (IF fw.works > 0 THEN {WorkOf(fw.next)} ELSE {})

\* queue_full_body comparing with > instead of >=
queue_full_body_gt(a, work) ==
    IF a.active_wq.num_elems > a.num_active_chips * 2
    THEN [a |-> [a EXCEPT !.lock = FALSE], r |-> TRUE]
    ELSE [a |-> [a EXCEPT !.active_wq = wq_enqueue(@, work), !.lock = FALSE],
          r |-> FALSE]

\* the queue check, the enqueue and mutex_unlock
queue_full_body(a, work) ==
    IF a.active_wq.num_elems >= a.num_active_chips * 2
    THEN [a |-> [a EXCEPT !.lock = FALSE], r |-> TRUE]
    ELSE [a |-> [a EXCEPT !.active_wq = wq_enqueue(@, work), !.lock = FALSE],
          r |-> FALSE]

QueueFull_body(c) ==
    /\ ~crashed
    /\ thr[c].pc = "qf_locked"
    /\ \E work \in GetQueued :
          LET q == queue_full_body(Begin(c), work)
              taken == ~q.r /\ work # NULL
          IN  /\ a1' = [a1 EXCEPT ![c] = q.a]
              /\ thr' = [thr EXCEPT ![c].pc = "idle", ![c].queue_full = q.r]
              /\ fw' = IF taken
                       THEN [fw EXCEPT !.next = @ + 1, !.works = @ - 1]
                       ELSE fw
    /\ UNCHANGED <<cgpu, sel, now, cfg, crashed, pf>>

(***************************************************************************)
(* A1_flush_work.                                                          *)
(***************************************************************************)
Flush_select(c) ==
    /\ ~crashed
    /\ thr[c].pc = "idle"
    /\ sel.lock = NoThread
    /\ \E i2c \in I2COutcomes : Select(c, i2c)
    /\ a1' = [a1 EXCEPT ![c] = Begin(c)]
    /\ thr' = Call(c, "fl_lock")
    /\ UNCHANGED <<cgpu, now, cfg, crashed, pf>>

Flush_lock(c) ==
    /\ ~crashed
    /\ thr[c].pc = "fl_lock"
    /\ ~a1[c].lock
    /\ a1' = [a1 EXCEPT ![c] = [Begin(c) EXCEPT !.lock = TRUE]]
    /\ thr' = [thr EXCEPT ![c].pc = "fl_body"]
    /\ UNCHANGED <<cgpu, sel, now, fw, cfg, crashed, pf>>

\* per chip, the answers to a clock change: a chip whose clock is not
\* changed leaves nothing unanswered
FlushIns(a) ==
    {ins \in [1..a.num_active_chips -> PllIns] :
        /\ Cardinality({k \in DOMAIN ins : ins[k] # DefIn}) <= fw.chip_faults
        /\ \A k \in DOMAIN ins :
              /\ ins[k] \in TunerIns(a, k)
              /\ ins[k] # DefIn =>
                    flush_work_body(a, TRUE, [ins EXCEPT ![k] = DefIn], now, cfg)
                        # flush_work_body(a, TRUE, ins, now, cfg)}

Flush_body(c) ==
    /\ ~crashed
    /\ thr[c].pc = "fl_body"
    /\ \E abort_ok \in Bool, ins \in FlushIns(Begin(c)) :
          /\ a1' = [a1 EXCEPT ![c] =
                       flush_work_body(Begin(c), abort_ok, ins, now, cfg)]
          /\ fw' = Faulted(Cardinality({k \in DOMAIN ins : ins[k] # DefIn}))
    /\ thr' = [thr EXCEPT ![c].pc = "fl_unlock"]
    /\ UNCHANGED <<cgpu, sel, now, cfg, crashed, pf>>

Flush_unlock(c) ==
    /\ ~crashed
    /\ thr[c].pc = "fl_unlock"
    /\ a1' = [a1 EXCEPT ![c] = [Begin(c) EXCEPT !.lock = FALSE]]
    /\ thr' = [thr EXCEPT ![c].pc = "fl_release"]
    /\ UNCHANGED <<cgpu, sel, now, fw, cfg, crashed, pf>>

Flush_release(c) ==
    /\ ~crashed
    /\ thr[c].pc = "fl_release"
    /\ sel' = [sel EXCEPT !.lock = NoThread]
    /\ a1' = [a1 EXCEPT ![c] = Begin(c)]
    /\ thr' = [thr EXCEPT ![c].pc = "idle"]
    /\ UNCHANGED <<cgpu, now, fw, cfg, crashed, pf>>

(***************************************************************************)
(* exec_cmd, cmd_READ_RESULT_BCAST and cmd_WRITE_JOB wrap every            *)
(* spi_transfer in assert: in the build with assertions a transfer that    *)
(* fails ends the process (with NDEBUG the transfers are compiled out with *)
(* the assertions, and none can fail).                                     *)
(***************************************************************************)
\* the next step of thread c sends a command
Sends(c) ==
    \/ thr[c].pc = "sw_drain" /\ ~thr[c].work_restart
    \/ /\ thr[c].pc = "sw_load" /\ ~thr[c].work_restart
       /\ ~is_chip_disabled(a1[c], thr[c].i)
    \/ /\ thr[c].pc = "sw_check"
       /\ check_disabled_chips(Begin(c),
              [k \in 1..a1[c].num_active_chips |-> TRUE], now).spi # <<>>
    \/ thr[c].pc = "fl_body"

\* a transfer of the command fails
Xfer_fail(c) ==
    /\ ~crashed
    /\ fw.xfer_faults > 0
    /\ Sends(c)
    /\ crashed' = TRUE
    /\ fw' = [fw EXCEPT !.xfer_faults = @ - 1]
    /\ UNCHANGED <<a1, cgpu, thr, sel, now, cfg, pf>>

Next ==
    \/ Tick
    \/ \E c \in Chains : Xfer_fail(c)
    \/ \E c \in Chains : SetRestart(c)
    \/ \E c \in Chains : ClearRestart(c)
    \/ \E c \in Chains : Scan_entry(c)
    \/ \E c \in Chains : Scan_select(c)
    \/ \E c \in Chains : Scan_lock(c)
    \/ \E c \in Chains : Scan_drain(c)
    \/ \E c \in Chains : Scan_load(c)
    \/ \E c \in Chains : Scan_check(c)
    \/ \E c \in Chains : Scan_unlock(c)
    \/ \E c \in Chains : Scan_release(c)
    \/ \E c \in Chains : Scan_abort_unlock(c)
    \/ \E c \in Chains : Scan_abort_release(c)
    \/ \E c \in Chains : QueueFull_lock(c)
    \/ \E c \in Chains : QueueFull_body(c)
    \/ \E c \in Chains : Flush_select(c)
    \/ \E c \in Chains : Flush_lock(c)
    \/ \E c \in Chains : Flush_body(c)
    \/ \E c \in Chains : Flush_unlock(c)
    \/ \E c \in Chains : Flush_release(c)

Spec == Init /\ [][Next]_vars
SpecCool == InitCool /\ [][Next]_vars
SpecConc == InitConc /\ [][Next]_vars
SpecTune == InitTune /\ [][Next]_vars

(***************************************************************************)
(* Scheduling.  A thread that is inside a driver function and can take a   *)
(* step takes it (the function runs to its return: no step waits for       *)
(* anything but a mutex); a thread waiting in select gets the selector's   *)
(* mutex if it is free again and again, because the thread that released   *)
(* it sleeps (cgsleep_ms) or returns to the framework before it selects    *)
(* again.                                                                  *)
(***************************************************************************)
ConcChains == {0, 2}

ThreadRun(c) ==
    \/ Scan_select(c) \/ Scan_lock(c) \/ Scan_drain(c) \/ Scan_load(c)
    \/ Scan_check(c) \/ Scan_unlock(c) \/ Scan_release(c)
    \/ Scan_abort_unlock(c) \/ Scan_abort_release(c)
    \/ QueueFull_body(c)
    \/ Flush_lock(c) \/ Flush_body(c) \/ Flush_unlock(c) \/ Flush_release(c)

Scheduling ==
    \A c \in ConcChains : WF_vars(ThreadRun(c)) /\ SF_vars(Scan_select(c))

SpecLive == InitConc /\ [][Next]_vars /\ Scheduling

(***************************************************************************)
(* Scheduling of a chain over its chips' cooldowns: the framework keeps    *)
(* calling scanwork (hash_queued_work calls it in a loop), a call runs to  *)
(* its return, and the clock advances while the thread sleeps between the  *)
(* calls, for as long as the run lasts (fw.ticks).                         *)
(***************************************************************************)
CoolChain == 0

CoolScheduling ==
    /\ WF_vars(ThreadRun(CoolChain))
    /\ SF_vars(Scan_entry(CoolChain))
    /\ SF_vars(Tick)

\* one chip over the cooldowns it takes to be given up, a chain of MaxChips
\* chips over one cooldown with an abort, and a chain whose transfer fails
InitCoolLive ==
    \/ Start({CoolChain}, 1, {Found(32)}, FALSE, 0,
             Budget(0, 0, MaxTicks, 0, 0, MaxChipFaults))
    \/ Start({CoolChain}, MaxChips, {Found(32)}, FALSE, 0,
             Budget(0, 0, 1, 0, MaxRestarts, 1))
    \/ Start({CoolChain}, 1, {Found(32)}, FALSE, 0,
             WithXfer(Budget(0, 0, 0, 0, 0, 0), MaxXferFaults))

SpecCoolLive == InitCoolLive /\ [][Next]_vars /\ CoolScheduling

\* every scenario of the driver: the properties of all runs are checked
\* over their union
InitAll == Init \/ InitCool \/ InitConc \/ InitTune
SpecAll == InitAll /\ [][Next]_vars

(***************************************************************************)
(* Functions of the driver called on their own, the driver at rest.        *)
(***************************************************************************)
Bench ==
    /\ InitCommon
    /\ a1 = << >>
    /\ cgpu = << >>
    /\ thr = << >>
    /\ fw = Budget(0, 0, 0, 0, 0, 0)

\* the configuration, with override_diff = od
BenchCfg(od) ==
    [enable_auto_tune |-> FALSE, cutofftemp |-> CUTOFF_TEMP,
     inf_int |-> INT_MAX, override_diff |-> od]

\* device_diff of the works a job is created for
JobDiffs == {1, 2, 3, 4, 7, 16}
\* configured override_diff
OverrideDiffs == {-1, 0, 1, 2, 3, 5}

InitJob ==
    /\ Bench
    /\ \E od \in OverrideDiffs :
          /\ cfg = BenchCfg(od)
          /\ pf = [fn |-> "create_job", job |-> StaticJob, calls |-> 0,
                   work |-> NULL]

\* set_work creates a job for a work
Create_job ==
    /\ pf.fn = "create_job"
    /\ pf.calls < MaxCalls
    /\ \E d \in JobDiffs :
          LET work == [id |-> pf.calls + 1, device_diff |-> d]
          IN  pf' = [pf EXCEPT !.job = create_job(@, cfg.override_diff, work),
                               !.calls = @ + 1,
                               !.work = work]
    /\ UNCHANGED <<a1, cgpu, thr, sel, now, fw, cfg, crashed>>

SpecJob == InitJob /\ [][Create_job]_vars

\* the bytes the temperature sensor may deliver
RawBytes == 0..255
\* the chains of the first board
PairChains == {0, 1}

InitTemp ==
    /\ Bench
    /\ cfg = BenchCfg(0)
    /\ pf = [fn |-> "get_temp", calls |-> 0, r |-> 0]

\* a thread selects its chain
Temp_select(chain) ==
    /\ pf.fn = "get_temp"
    /\ sel' = ccb_select(sel, chain, "ok").s
    /\ UNCHANGED <<a1, cgpu, thr, now, fw, cfg, crashed, pf>>

\* A1_scanwork reads the temperature of the selected chain
Get_temp ==
    /\ pf.fn = "get_temp"
    /\ pf.calls < MaxCalls
    /\ \E in \in {[open_ok |-> FALSE, read_ok |-> FALSE, raw |-> 0],
                   [open_ok |-> TRUE, read_ok |-> FALSE, raw |-> 0]}
                  \cup {[open_ok |-> TRUE, read_ok |-> TRUE, raw |-> r] :
                           r \in RawBytes} :
          LET g == ccb_get_temp(sel, in)
          IN  /\ sel' = g.s
              /\ pf' = [pf EXCEPT !.r = g.r, !.calls = @ + 1]
    /\ UNCHANGED <<a1, cgpu, thr, now, fw, cfg, crashed>>

NextTemp == (\E chain \in PairChains : Temp_select(chain)) \/ Get_temp

SpecTemp == InitTemp /\ [][NextTemp]_vars

(********** upper layer SPI functions *)
MAX_CHAIN_LENGTH == 64

\* exec_cmd with the poll length of a broadcast for every chip id
exec_cmd_bcast(num_chips, chip_id, len, resp_len) ==
    LET tx_len == 4 + len
        poll_len == resp_len + (IF num_chips = 0 THEN 32 ELSE 0)
                        + 4 * num_chips
        ack_len == tx_len + resp_len
        ack_pos == tx_len + poll_len - ack_len
    IN  [tx_len |-> tx_len, poll_len |-> poll_len, ack_pos |-> ack_pos]

(***************************************************************************)
(* exec_cmd, both transfers done: the lengths of the command and of the    *)
(* poll it clocks, and the offset in spi_rx of the pointer it returns.     *)
(* num_chips is a1->num_chips, len the length of the data.                 *)
(***************************************************************************)
exec_cmd(num_chips, chip_id, len, resp_len) ==
    LET tx_len == 4 + len
        poll_len == resp_len
                        + (IF chip_id = 0
                           THEN (IF num_chips = 0 THEN 32 ELSE 0)
                                    + 4 * num_chips
                           ELSE 4 * chip_id - 2)
        ack_len == tx_len + resp_len
        ack_pos == tx_len + poll_len - ack_len
    IN  [tx_len |-> tx_len, poll_len |-> poll_len, ack_pos |-> ack_pos]

\* <<len, resp_len>> of the commands sent through exec_cmd: BIST_START and
\* RESET, BIST_FIX, WRITE_REG, READ_REG
FrameCmds == {<<2, 0>>, <<0, 0>>, <<6, 0>>, <<0, 6>>}
\* a1->num_chips of the chain a command is sent on
FrameChips == {0, 1, 2, 8, MAX_CHAIN_LENGTH}
\* the outcome of the two transfers of a command
Xfers == {"ok", "cmd_fail", "poll_fail"}

InitFrame ==
    /\ Bench
    /\ cfg = BenchCfg(0)
    /\ \E n \in FrameChips :
          pf = [fn |-> "exec_cmd", num_chips |-> n, calls |-> 0,
                arg |-> [chip_id |-> 0, len |-> 0, resp_len |-> 0],
                r |-> [tx_len |-> 0, poll_len |-> 0, ack_pos |-> 0]]

\* a command is sent: a failed transfer stops the program at its assert,
\* pf.calls counts the commands exec_cmd returned from
Exec_cmd ==
    /\ pf.fn = "exec_cmd"
    /\ ~crashed
    /\ pf.calls < MaxCalls
    /\ \E chip_id \in 0..MAX_CHAIN_LENGTH, lr \in FrameCmds, x \in Xfers :
          /\ crashed' = (x # "ok")
          /\ pf' = IF x # "ok" THEN pf
                   ELSE [pf EXCEPT
                            !.calls = @ + 1,
                            !.arg = [chip_id |-> chip_id, len |-> lr[1],
                                     resp_len |-> lr[2]],
                            !.r = exec_cmd(pf.num_chips, chip_id,
                                           lr[1], lr[2])]
    /\ UNCHANGED <<a1, cgpu, thr, sel, now, fw, cfg>>

SpecFrame == InitFrame /\ [][Exec_cmd]_vars

(********** chain detection *)
\* no transfer: the ACK is never seen, no transfer fails
NoWord == -1
\* transfer 0 is the 6-byte RESET broadcast, transfer k > 0 the k-th
\* 2-byte idle transfer
Words == 0..(2 * MAX_CHAIN_LENGTH)

(***************************************************************************)
(* chain_detect, the value it returns and stores in num_chips.  ackAt is   *)
(* the transfer whose rx first holds the RESET ACK [0x04, 0x00], failAt    *)
(* the first transfer that fails.  The loop is left at the first index i   *)
(* in 1..2 * MAX_CHAIN_LENGTH - 1 at which spi_rx, read by transfer i - 1, *)
(* holds the ACK, or at which transfer i fails; the ACK is tested first.   *)
(***************************************************************************)
chain_detect_loop(ackAt, failAt) ==
    LET max_poll_words == MAX_CHAIN_LENGTH * 2
        stops == {i \in 1..(max_poll_words - 1) :
                     ackAt = i - 1 \/ failAt = i}
        i == CHOOSE x \in stops : \A y \in stops : x <= y
    IN  IF stops = {} THEN 0
        ELSE IF ackAt = i - 1 THEN (i \div 2) + 1
        ELSE 0

\* chain_detect not checking the RESET broadcast's transfer
chain_detect_unchecked(ackAt, failAt) ==
    chain_detect_loop(ackAt, failAt)

chain_detect(ackAt, failAt) ==
    IF failAt = 0 THEN 0
    ELSE chain_detect_loop(ackAt, failAt)

InitDetect ==
    /\ Bench
    /\ cfg = BenchCfg(0)
    /\ \E k \in Words \cup {NoWord}, f \in Words \cup {NoWord} :
          pf = [fn |-> "chain_detect", ack_at |-> k, fail_at |-> f,
                calls |-> 0, num_chips |-> 0]

\* init_A1_chain detects the chain
Chain_detect ==
    /\ pf.fn = "chain_detect"
    /\ pf.calls = 0
    /\ pf' = [pf EXCEPT !.calls = 1,
                        !.num_chips = chain_detect(pf.ack_at, pf.fail_at)]
    /\ UNCHANGED <<a1, cgpu, thr, sel, now, fw, cfg, crashed>>

SpecDetect == InitDetect /\ [][Chain_detect]_vars

(********** A1 low level functions: the PLL register *)
\* x | y of two non-negative integers
RECURSIVE BitOr(_, _)
BitOr(x, y) ==
    IF x = 0 THEN y
    ELSE IF y = 0 THEN x
    ELSE (IF x % 2 = 1 \/ y % 2 = 1 THEN 1 ELSE 0)
             + 2 * BitOr(x \div 2, y \div 2)

\* the while loop of the Euclidean search: the value of a when b = 0
RECURSIVE pll_gcd(_, _)
pll_gcd(a, b) == IF b = 0 THEN a ELSE pll_gcd(b, a % b)

\* from the multiplier fb_div and the divider n to the register: post_div
\* and pre_div are uint8_t, writereg[0] and writereg[1] are the bytes sent
pll_fields(fb, n) ==
    LET post_div == IF n % 4 = 0 THEN 3 ELSE IF n % 2 = 0 THEN 2 ELSE 1
        pre == (n \div (2 ^ (post_div - 1))) % 256
        fb_div == IF pre > 31 THEN (31 * fb) \div pre ELSE fb
        pre_div == IF pre > 31 THEN 31 ELSE pre
    IN  [post_div |-> post_div, pre_div |-> pre_div, fb_div |-> fb_div,
         writereg0 |-> BitOr(BitOr(post_div * 64, pre_div * 2),
                             fb_div \div 256) % 256,
         writereg1 |-> fb_div % 256]

\* get_pll_reg keeping the divider n when it approximates the multiplier
get_pll_reg_keepn(ref_clock_khz, sys_clock_khz) ==
    LET a == pll_gcd(ref_clock_khz, sys_clock_khz)
        fb_div == sys_clock_khz \div a
        n == ref_clock_khz \div a
        f == fb_div \div n
        m == IF f < 32 THEN 16 ELSE IF f < 64 THEN 8
             ELSE IF f < 128 THEN 4 ELSE 1
    IN  IF fb_div > 511
        THEN pll_fields((m * fb_div) \div n, n)
        ELSE pll_fields(fb_div, n)

(***************************************************************************)
(* get_pll_reg for positive clocks: the PLL parameters and the first two   *)
(* bytes of the register.  The last alternative of m, (256 < 2) ? 2 : 1,   *)
(* is 1.  The products stay below 2^31 for the clocks below.               *)
(***************************************************************************)
get_pll_reg(ref_clock_khz, sys_clock_khz) ==
    LET a == pll_gcd(ref_clock_khz, sys_clock_khz)
        fb_div == sys_clock_khz \div a
        n == ref_clock_khz \div a
        f == fb_div \div n
        m == IF f < 32 THEN 16 ELSE IF f < 64 THEN 8
             ELSE IF f < 128 THEN 4 ELSE 1
    IN  IF fb_div > 511
        THEN pll_fields((m * fb_div) \div n, m)
        ELSE pll_fields(fb_div, n)

\* the reference clocks of the option ref_clk, the default among them
PllRefs == {2000, 12000, ref_clk_khz, 25000}
\* system clocks from 100 MHz, the least the configuration accepts
MaxSysSteps == 11200
PllSysClks == {100000 + 125 * j : j \in 0..MaxSysSteps}

InitPll ==
    /\ Bench
    /\ cfg = BenchCfg(0)
    /\ \E ref \in PllRefs, sys \in PllSysClks :
          pf = [fn |-> "get_pll_reg", ref |-> ref, sys |-> sys, calls |-> 0,
                r |-> [post_div |-> 0, pre_div |-> 0, fb_div |-> 0,
                       writereg0 |-> 0, writereg1 |-> 0]]

\* set_pll_config computes the register for a clock
Get_pll_reg ==
    /\ pf.fn = "get_pll_reg"
    /\ pf.calls = 0
    /\ pf' = [pf EXCEPT !.calls = 1, !.r = get_pll_reg(pf.ref, pf.sys)]
    /\ UNCHANGED <<a1, cgpu, thr, sel, now, fw, cfg, crashed>>

SpecPll == InitPll /\ [][Get_pll_reg]_vars

(********** A1 low level functions: the PLL lock *)
\* chips of a chain whose PLLs are configured
MaxLockChips == 3
\* the PLL's answer to the lock polls of one chip
Locks == {"ok", "mismatch", "timeout"}
\* the clock of initial_pll, which the chips run the BIST at
INITIAL_PLL_KHZ == 200000
\* clocks configured: the tuner's bounds, the default, the clocks of
\* broken and of weak chips
LockClks ==
    {lower_clk_khz, BROKEN_CHIP_SYS_CLK, WEAK_CHIP_SYS_CLK, SYS_CLK_KHZ,
     upper_clk_khz}

\* the fields of struct A1_chain that the PLL configuration reads and
\* writes, for a chain of n detected chips
LockChain(n, num_active_chips) ==
    [num_chips |-> n, num_active_chips |-> num_active_chips,
     hw_clk |-> [k \in 1..n |-> INITIAL_PLL_KHZ], spi |-> <<>>]

(***************************************************************************)
(* init_A1_chain from the detected chain to the chips' checks: the chain   *)
(* is zeroed by memset, so num_active_chips is 0 until it is assigned      *)
(* after the broadcast PLL configuration.  in.init_ok, in.bist_ok,         *)
(* in.wr_ok, in.fix_ok: the WRITE_REG of initial_pll, BIST_START, the      *)
(* WRITE_REG of set_pll_config and BIST_FIX are acknowledged; in.lock0:    *)
(* the answer to lock polls addressed to chip_id 0.  r is FALSE where the  *)
(* code goes to failure and returns NULL.                                  *)
(***************************************************************************)
init_A1_chain_pll(n, sys_clk, in) ==
    LET z == LockChain(n, 0)
        w == Spi(z, "WRITE_REG", 0, 0)
        s == Spi(w, "BIST_START", 0, 0)
        p == set_pll_config(s, 0, sys_clk,
                            [wr_ok |-> in.wr_ok, lock |-> in.lock0])
        f == Spi([p.a EXCEPT !.num_active_chips = n], "BIST_FIX", 0, 0)
    IN  IF ~in.init_ok THEN [a |-> w, r |-> FALSE]
        ELSE IF ~in.bist_ok THEN [a |-> s, r |-> FALSE]
        ELSE IF ~p.r THEN [a |-> p.a, r |-> FALSE]
        ELSE IF ~in.fix_ok THEN [a |-> f, r |-> FALSE]
        ELSE [a |-> f, r |-> TRUE]

\* answers to the broadcasts of bring-up; an answer that is not asked for
\* once an earlier one is a failure is fixed
BringUpIns ==
    {x \in [init_ok : Bool, bist_ok : Bool, wr_ok : Bool, fix_ok : Bool,
            lock0 : Locks] :
        /\ (~x.init_ok => x.bist_ok)
        /\ (~x.bist_ok => x.wr_ok)
        /\ (~x.wr_ok => x.fix_ok)
        /\ (x.lock0 # "ok" => x.init_ok /\ x.bist_ok /\ x.wr_ok)}

\* READ_REGs of chip k in a log
Polls(spi, k) ==
    Cardinality({i \in DOMAIN spi : spi[i] = <<"READ_REG", k, 0>>})

InitLock ==
    /\ Bench
    /\ cfg = BenchCfg(0)
    /\ \/ \E chip_id \in 1..MaxLockChips, clk \in LockClks, wr_ok \in Bool,
             lock \in Locks :
             pf = [fn |-> "set_pll_config", chip_id |-> chip_id,
                   sys_clk |-> clk, in |-> [wr_ok |-> wr_ok, lock |-> lock],
                   calls |-> 0, r |-> FALSE, spi |-> <<>>,
                   hw_clk |-> INITIAL_PLL_KHZ]
       \/ \E n \in 1..MaxLockChips, in \in BringUpIns :
             \E locks \in [1..n -> Locks] :
                pf = [fn |-> "init_A1_chain", num_chips |-> n,
                      sys_clk |-> SYS_CLK_KHZ, in |-> in, locks |-> locks,
                      calls |-> 0, r |-> FALSE, spi |-> <<>>]

\* the tuner or check_chip configures the PLL of one chip of a chain that
\* was brought up
Set_pll_config ==
    /\ pf.fn = "set_pll_config"
    /\ pf.calls = 0
    /\ LET o == set_pll_config(LockChain(MaxLockChips, MaxLockChips),
                               pf.chip_id, pf.sys_clk, pf.in)
       IN  pf' = [pf EXCEPT !.calls = 1, !.r = o.r, !.spi = o.a.spi,
                            !.hw_clk = o.a.hw_clk[pf.chip_id]]
    /\ UNCHANGED <<a1, cgpu, thr, sel, now, fw, cfg, crashed>>

\* a detected chain is brought up; pf.locks[k] is what chip k's PLL does
\* with the broadcast configuration
Init_A1_chain ==
    /\ pf.fn = "init_A1_chain"
    /\ pf.calls = 0
    /\ LET o == init_A1_chain_pll(pf.num_chips, pf.sys_clk, pf.in)
       IN  pf' = [pf EXCEPT !.calls = 1, !.r = o.r, !.spi = o.a.spi]
    /\ UNCHANGED <<a1, cgpu, thr, sel, now, fw, cfg, crashed>>

NextLock == Set_pll_config \/ Init_A1_chain

SpecLock == InitLock /\ [][NextLock]_vars

(********** chip classification at bring-up *)
\* rx[7] of a chip's READ_REG: the core counts around the two thresholds
\* and the ends of the byte
CoreCounts ==
    {0, BROKEN_CHIP_THRESHOLD - 1, BROKEN_CHIP_THRESHOLD,
     WEAK_CHIP_THRESHOLD - 1, WEAK_CHIP_THRESHOLD, 32, 255}

\* the chip's bit in chip_bitmask and its answers to check_chip's commands;
\* an answer that is not asked for is fixed
CheckChipIns ==
    {x \in [bypass : Bool, rr_ok : Bool, cores : CoreCounts, wr_ok : Bool,
            lock : {"ok", "timeout"}] :
        /\ (x.bypass => x.rr_ok)
        /\ (x.bypass \/ ~x.rr_ok => x.cores = 0)
        /\ (x.bypass \/ ~x.rr_ok \/ x.cores >= WEAK_CHIP_THRESHOLD
                => x.wr_ok /\ x.lock = "ok")}

InitChip ==
    /\ Bench
    /\ cfg = BenchCfg(0)
    /\ \E chip_id \in 1..MaxLockChips, clk \in LockClks, in \in CheckChipIns :
          pf = [fn |-> "check_chip", chip_id |-> chip_id, sys_clk |-> clk,
                in |-> in, calls |-> 0, chip |-> ZeroChip, spi |-> <<>>,
                hw_clk |-> clk, num_cores |-> 0]

\* init_A1_chain checks one chip of the chain it brings up
Check_chip ==
    /\ pf.fn = "check_chip"
    /\ pf.calls = 0
    /\ LET o == check_chip(ZeroChain(0, MaxLockChips, pf.sys_clk), pf.chip_id,
                           pf.in, now, cfg)
       IN  pf' = [pf EXCEPT !.calls = 1, !.chip = o.chips[pf.chip_id],
                            !.spi = o.spi, !.hw_clk = o.hw_clk[pf.chip_id],
                            !.num_cores = o.num_cores]
    /\ UNCHANGED <<a1, cgpu, thr, sel, now, fw, cfg, crashed>>

SpecChip == InitChip /\ [][Check_chip]_vars

(***************************************************************************)
(* Properties.                                                             *)
(***************************************************************************)
Range(f) == {f[x] : x \in DOMAIN f}

\* a step of chain c's driver thread (the framework's steps change
\* work_restart, the clock's step changes neither record)
ThreadStep(c) ==
    /\ thr'[c].work_restart = thr[c].work_restart
    /\ (thr'[c] # thr[c] \/ a1'[c] # a1[c])

\* positions at which a thread is between select and release
SelPcs ==
    {"sw_lock", "sw_drain", "sw_load", "sw_check", "sw_done", "sw_release",
     "sw_abort", "sw_abort_release",
     "fl_lock", "fl_body", "fl_unlock", "fl_release"}

RECURSIVE SumCores(_, _)
SumCores(chips, S) ==
    IF S = {} THEN 0
    ELSE LET k == CHOOSE x \in S : TRUE
         IN  chips[k].num_cores + SumCores(chips, S \ {k})

AllDisabled(a) == \A k \in DOMAIN a.chips : a.chips[k].disabled

(***************************************************************************)
(* C1.  Backpressure bound of queue_full: a call that finds               *)
(* >= 2 * num_active_chips works queued returns true and leaves the queue  *)
(* as it is; any other call returns false and appends the work the         *)
(* framework hands out, if it hands out one.  In every state the queue's   *)
(* list is num_elems long and num_elems <= 2 * num_active_chips.           *)
(***************************************************************************)
C1_QueueInv ==
    \A c \in Chains :
        /\ Len(a1[c].active_wq.list) = a1[c].active_wq.num_elems
        /\ a1[c].active_wq.num_elems <= 2 * a1[c].num_active_chips

C1_QueueFullStep ==
    \A c \in Chains :
        (thr[c].pc = "qf_locked" /\ thr'[c].pc = "idle") =>
            LET q == a1[c].active_wq
                q2 == a1'[c].active_wq
            IN  IF q.num_elems >= 2 * a1[c].num_active_chips
                THEN thr'[c].queue_full /\ q2 = q /\ fw' = fw
                ELSE /\ ~thr'[c].queue_full
                     /\ IF fw' = fw
                        THEN q2 = q
                        ELSE q2 = [num_elems |-> q.num_elems + 1,
                                   list |-> Append(q.list, WorkOf(fw.next))]

C1_Backpressure == []C1_QueueInv /\ [][C1_QueueFullStep]_vars

\* C1 witness: queue_full returned true on the longest chain, whose queue
\* holds 2 * num_active_chips works
C1_Full ==
    \E c \in Chains :
        /\ thr[c].pc = "idle" /\ thr[c].queue_full
        /\ a1[c].num_active_chips = MaxChips
        /\ a1[c].active_wq.num_elems = 2 * a1[c].num_active_chips

(***************************************************************************)
(* C2.  Postcondition of flush_work: when the body of flush_work is done,  *)
(* and up to its return, the chain's queue is empty and the four work      *)
(* slots of every chip are null, whatever was queued or loaded, whatever   *)
(* the chips' status and whether or not the RESET broadcast was            *)
(* acknowledged.                                                           *)
(***************************************************************************)
Flushed(a) ==
    /\ a.active_wq.num_elems = 0
    /\ a.active_wq.list = <<>>
    /\ \A k \in DOMAIN a.chips : \A j \in 0..3 : a.chips[k].work[j] = NULL

C2_FlushStep ==
    \A c \in Chains :
        (thr[c].pc \in {"fl_body", "fl_unlock", "fl_release"}
            /\ thr'[c].pc # thr[c].pc) => Flushed(a1'[c])

C2_FlushPost == [][C2_FlushStep]_vars

\* C2 witness: the body of flush_work is done on a chain with a Cooling and
\* a Disabled chip, the RESET broadcast was not acknowledged, and three or
\* more works have been given back
C2_Flushed ==
    \E c \in Chains :
        /\ thr[c].pc = "fl_unlock"
        /\ a1[c].log_err
        /\ \E k \in DOMAIN a1[c].chips : Status(a1[c].chips[k]) = "Cooling"
        /\ \E k \in DOMAIN a1[c].chips : Status(a1[c].chips[k]) = "Disabled"
        /\ Cardinality({w \in DOMAIN a1[c].completed : a1[c].completed[w] > 0}) >= 3
        /\ Flushed(a1[c])

(***************************************************************************)
(* C3.  scanwork never returns a negative value: a pass that is not        *)
(* aborted returns nonce_ranges_processed * 2^32 and zeroes the            *)
(* accumulator when it is >= 0, and returns 0 and leaves the accumulator   *)
(* when it is negative.                                                    *)
(***************************************************************************)
C3_NonNeg == \A c \in Chains : thr[c].ret.hi >= 0 /\ thr[c].ret.lo = 0

C3_ReleaseStep ==
    \A c \in Chains :
        (thr[c].pc = "sw_release" /\ thr'[c].pc = "idle") =>
            LET n == a1[c].nonce_ranges_processed
            IN  IF n >= 0
                THEN /\ thr'[c].ret = [hi |-> n, lo |-> 0]
                     /\ a1'[c].nonce_ranges_processed = 0
                ELSE /\ thr'[c].ret = [hi |-> 0, lo |-> 0]
                     /\ a1'[c].nonce_ranges_processed = n

C3_ReturnValue == []C3_NonNeg /\ [][C3_ReleaseStep]_vars

\* C3 witness: scanwork has returned a positive count of nonce ranges
C3_Reported ==
    \E c \in Chains :
        /\ thr[c].pc = "idle"
        /\ thr[c].ret.hi > 0
        /\ a1[c].nonce_ranges_processed = 0

(***************************************************************************)
(* C4.  Cooperative abort of scanwork: with work_restart set scanwork does *)
(* not get past its entry; an iteration of the drain loop or of the load   *)
(* loop that finds it set goes to the abort exit without an SPI command    *)
(* and without touching the chain; the abort exit issues no SPI command,   *)
(* loads no job, returns 0 and returns with the chain mutex and the        *)
(* selector released.                                                      *)
(***************************************************************************)
C4_AbortStep ==
    \A c \in Chains :
        /\ (thr[c].pc = "idle" /\ thr'[c].pc = "sw_select")
               => ~thr[c].work_restart
        /\ (thr[c].pc \in {"sw_drain", "sw_load"} /\ thr[c].work_restart
               /\ (thr'[c] # thr[c] \/ a1'[c] # a1[c]))
               => /\ thr'[c].pc = "sw_abort"
                  /\ a1'[c] = [a1[c] EXCEPT !.spi = <<>>, !.log_err = FALSE]
        /\ (thr[c].pc \in {"sw_abort", "sw_abort_release"}
               /\ thr'[c].pc # thr[c].pc)
               => /\ a1'[c].spi = <<>>
                  /\ a1'[c].chips = a1[c].chips
                  /\ a1'[c].active_wq = a1[c].active_wq
                  /\ thr'[c].pc \in {"sw_abort_release", "idle"}
                  /\ (thr'[c].pc = "idle" =>
                         /\ thr'[c].ret = [hi |-> 0, lo |-> 0]
                         /\ ~a1'[c].lock
                         /\ sel'.lock # c)

C4_Abort == [][C4_AbortStep]_vars

\* C4 witness: scanwork is at its abort exit, both locks still held, with
\* works queued that it has not loaded
C4_Aborting ==
    \E c \in Chains :
        /\ thr[c].pc = "sw_abort" /\ thr[c].work_restart
        /\ a1[c].lock /\ sel.lock = c
        /\ a1[c].active_wq.num_elems > 0

(***************************************************************************)
(* C5.  Lock order.  As claimed: a thread that holds a chain's mutex holds *)
(* the board selector.                                                     *)
(***************************************************************************)
C5_LockOrderClaimed ==
    \A c \in Chains : a1[c].lock => sel.lock = c

(***************************************************************************)
(* C5, amended.  In scanwork and flush_work the chain mutex is held only   *)
(* between select and release, by the thread that holds the selector;      *)
(* queue_full holds the chain mutex without the selector and issues no SPI *)
(* command.                                                                *)
(***************************************************************************)
C5_LockOrder ==
    \A c \in Chains :
        a1[c].lock =>
            IF thr[c].pc = "qf_locked"
            THEN a1[c].spi = <<>>
            ELSE thr[c].pc \in SelPcs /\ sel.lock = c

\* C5 witness: one thread holds its chain's mutex and the selector while
\* another is in queue_full, holding its chain's mutex alone
C5_Both ==
    \E c \in Chains, d \in Chains :
        /\ c # d
        /\ a1[c].lock /\ sel.lock = c /\ thr[c].pc = "sw_drain"
        /\ a1[d].lock /\ thr[d].pc = "qf_locked"

(***************************************************************************)
(* C6.  Board-selector mutual exclusion: at most one thread is between a   *)
(* returned select and its release, it owns the selector's mutex, and the  *)
(* selector's active chain is that thread's chain all the while.           *)
(***************************************************************************)
C6_Mutex ==
    LET H == {c \in Chains : thr[c].pc \in SelPcs}
    IN  /\ Cardinality(H) <= 1
        /\ \A c \in H : sel.lock = c /\ sel.active_chain = c
        /\ (H = {} => sel.lock = NoThread)

\* C6 witness: one thread is loading jobs between select and release while
\* the other waits in select
C6_Waiting ==
    \E c \in Chains, d \in Chains :
        /\ c # d
        /\ thr[c].pc = "sw_load" /\ sel.active_chain = c
        /\ thr[d].pc = "sw_select"

(***************************************************************************)
(* C7.  Cooling -> Active: a Cooling chip becomes Active only in           *)
(* check_disabled_chips, only when now >= cooldown_begin + COOLDOWN_MS and *)
(* a READ_REG of the chip is answered, and its fail_count is then 0.       *)
(* Before the cooldown has elapsed no step of the driver issues a READ_REG *)
(* to the chip or changes its status, cooldown_begin or fail_count.        *)
(***************************************************************************)
C7_ReenableStep ==
    \A c \in Chains : \A k \in DOMAIN a1[c].chips :
        LET ch == a1[c].chips[k]
            ch2 == a1'[c].chips[k]
        IN  /\ (Status(ch) = "Cooling" /\ Status(ch2) = "Active") =>
                   /\ thr[c].pc = "sw_check"
                   /\ now >= ch.cooldown_begin + COOLDOWN_MS
                   /\ ch2.fail_count = 0
                   /\ <<"READ_REG", k, 0>> \in Range(a1'[c].spi)
                   /\ \E oks \in [1..a1[c].num_active_chips -> Bool] :
                         /\ oks[k]
                         /\ a1'[c] = check_disabled_chips(Begin(c), oks, now)
            /\ (Status(ch) = "Cooling" /\ now < ch.cooldown_begin + COOLDOWN_MS
                   /\ ThreadStep(c)) =>
                   /\ Status(ch2) = "Cooling"
                   /\ ch2.cooldown_begin = ch.cooldown_begin
                   /\ ch2.fail_count = ch.fail_count
                   /\ <<"READ_REG", k, 0>> \notin Range(a1'[c].spi)

C7_Reenable == [][C7_ReenableStep]_vars

\* C7 witness: check_disabled_chips has just read a chip's register and the
\* chip is Active
C7_Reenabled ==
    \E c \in Chains : \E k \in DOMAIN a1[c].chips :
        /\ thr[c].pc = "sw_done"
        /\ <<"READ_REG", k, 0>> \in Range(a1[c].spi)
        /\ Status(a1[c].chips[k]) = "Active"

(***************************************************************************)
(* C8.  Cooling -> Disabled: a chip becomes Disabled at run time only as a *)
(* Cooling chip whose re-enable probe fails with fail_count at the         *)
(* threshold (the 4th failure in a row); each earlier failed probe adds 1  *)
(* to fail_count and restarts the cooldown.  The chain's num_cores         *)
(* decreases by the num_cores of the chips that become Disabled, in that   *)
(* step and in no other, and a Disabled chip stays Disabled.               *)
(***************************************************************************)
C8_Bounded ==
    \A c \in Chains : \A k \in DOMAIN a1[c].chips :
        ~a1[c].chips[k].disabled =>
            a1[c].chips[k].fail_count <= DISABLE_CHIP_FAIL_THRESHOLD

C8_GiveUpStep ==
    \A c \in Chains :
        LET a == a1[c]
            b == a1'[c]
            gone == {k \in DOMAIN a.chips :
                        ~a.chips[k].disabled /\ b.chips[k].disabled}
        IN  /\ \A k \in DOMAIN a.chips :
                   a.chips[k].disabled => b.chips[k].disabled
            /\ \A k \in gone :
                   /\ Status(a.chips[k]) = "Cooling"
                   /\ thr[c].pc = "sw_check"
                   /\ now >= a.chips[k].cooldown_begin + COOLDOWN_MS
                   /\ a.chips[k].fail_count = DISABLE_CHIP_FAIL_THRESHOLD
                   /\ b.chips[k].fail_count = DISABLE_CHIP_FAIL_THRESHOLD + 1
                   /\ <<"READ_REG", k, 0>> \in Range(b.spi)
            /\ b.num_cores = a.num_cores - SumCores(a.chips, gone)
            /\ \A k \in DOMAIN a.chips :
                   (/\ Status(a.chips[k]) = "Cooling"
                    /\ Status(b.chips[k]) = "Cooling"
                    /\ b.chips[k].fail_count # a.chips[k].fail_count) =>
                       /\ b.chips[k].fail_count = a.chips[k].fail_count + 1
                       /\ b.chips[k].cooldown_begin = now
                       /\ <<"READ_REG", k, 0>> \in Range(b.spi)

C8_GiveUp == []C8_Bounded /\ [][C8_GiveUpStep]_vars

\* C8 witness: check_disabled_chips has just given up a chip with cores on
\* its 4th failed probe
C8_GivenUp ==
    \E c \in Chains : \E k \in DOMAIN a1[c].chips :
        /\ thr[c].pc = "sw_done"
        /\ <<"READ_REG", k, 0>> \in Range(a1[c].spi)
        /\ a1[c].chips[k].disabled
        /\ a1[c].chips[k].fail_count = DISABLE_CHIP_FAIL_THRESHOLD + 1
        /\ a1[c].chips[k].num_cores > 0

(***************************************************************************)
(* C9.  Core-count invariant: the chain's num_cores is the sum of          *)
(* num_cores over its chips that are not Disabled.                         *)
(***************************************************************************)
C9_CoreCount ==
    \A c \in Chains :
        a1[c].num_cores =
            SumCores(a1[c].chips,
                     {k \in DOMAIN a1[c].chips : ~a1[c].chips[k].disabled})

\* C9 witness: a chain with a chip given up at run time and a Cooling chip
\* that still counts
C9_Mixed ==
    \E c \in Chains : \E k \in DOMAIN a1[c].chips, m \in DOMAIN a1[c].chips :
        /\ a1[c].chips[k].disabled
        /\ a1[c].chips[k].fail_count > DISABLE_CHIP_FAIL_THRESHOLD
        /\ Status(a1[c].chips[m]) = "Cooling"
        /\ a1[c].num_cores = a1[c].chips[m].num_cores
        /\ a1[c].num_cores > 0

(***************************************************************************)
(* C10.  Chain quiescence: num_cores is 0 exactly when every chip is       *)
(* Disabled; scanwork on such a chain does not get past its entry, sets    *)
(* deven to DISABLED and returns 0 with the selector, the chain mutex and  *)
(* the bus untouched; and deven becomes DISABLED only that way.            *)
(***************************************************************************)
C10_NoCores ==
    \A c \in Chains : (a1[c].num_cores = 0) <=> AllDisabled(a1[c])

C10_QuiesceStep ==
    \A c \in Chains :
        /\ (AllDisabled(a1[c]) /\ thr[c].pc = "idle")
               => thr'[c].pc # "sw_select"
        /\ (AllDisabled(a1[c]) /\ thr[c].pc = "idle" /\ thr'[c].pc = "idle"
               /\ ThreadStep(c))
               => /\ cgpu'[c].deven = "DISABLED"
                  /\ thr'[c].ret = [hi |-> 0, lo |-> 0]
                  /\ sel' = sel
                  /\ ~a1'[c].lock
                  /\ a1'[c].spi = <<>>
        /\ (cgpu'[c].deven = "DISABLED" /\ cgpu[c].deven # "DISABLED")
               => /\ AllDisabled(a1[c])
                  /\ thr[c].pc = "idle" /\ thr'[c].pc = "idle"
                  /\ thr'[c].ret = [hi |-> 0, lo |-> 0]
                  /\ sel' = sel
                  /\ ~a1'[c].lock
                  /\ a1'[c].spi = <<>>

C10_Quiesce == []C10_NoCores /\ [][C10_QuiesceStep]_vars

\* C10 witness: a chain whose last chip was given up at run time has been
\* reported DISABLED
C10_Quiesced ==
    \E c \in Chains :
        /\ cgpu[c].deven = "DISABLED"
        /\ thr[c].pc = "idle"
        /\ \E k \in DOMAIN a1[c].chips :
              a1[c].chips[k].fail_count > DISABLE_CHIP_FAIL_THRESHOLD

(***************************************************************************)
(* C11.  SPI failure propagation: a step in which a transfer fails or a    *)
(* chip leaves a command unanswered does not end the process, and leaves   *)
(* a chip of the chain Cooling.                                            *)
(***************************************************************************)
C11_PropagationStep ==
    (fw'.xfer_faults < fw.xfer_faults \/ fw'.chip_faults < fw.chip_faults) =>
        /\ ~crashed'
        /\ \E c \in Chains : \E k \in DOMAIN a1'[c].chips :
              Status(a1'[c].chips[k]) = "Cooling"

C11_Propagation == [][C11_PropagationStep]_vars

(***************************************************************************)
(* C12.  Auto-tuner clock bounds: a clock the tuner records as             *)
(* at_current.sys_clk, and a clock it programs into a chip, lies within    *)
(* [lower_clk_khz, upper_clk_khz]; a recorded clock is the configured one  *)
(* or lies within the bounds.                                              *)
(***************************************************************************)
InClkBounds(clk) == clk >= lower_clk_khz /\ clk <= upper_clk_khz

C12_Recorded ==
    \A c \in Chains : \A k \in DOMAIN a1[c].chips :
        \/ a1[c].chips[k].at_current.sys_clk = a1[c].sys_clk
        \/ InClkBounds(a1[c].chips[k].at_current.sys_clk)

C12_TuneStep ==
    \A c \in Chains : \A k \in DOMAIN a1[c].chips :
        /\ a1'[c].chips[k].at_current.sys_clk # a1[c].chips[k].at_current.sys_clk
               => InClkBounds(a1'[c].chips[k].at_current.sys_clk)
        /\ a1'[c].hw_clk[k] # a1[c].hw_clk[k]
               => InClkBounds(a1'[c].hw_clk[k])

C12_ClockBounds == []C12_Recorded /\ [][C12_TuneStep]_vars

\* C12 witness: a chip's clock was raised by less than CLOCK_DELTA, to the
\* upper bound
C12_Clamped ==
    \E c \in Chains : \E k \in DOMAIN a1[c].chips :
        /\ a1[c].chips[k].at_current.sys_clk = upper_clk_khz
        /\ a1[c].chips[k].at_prev.sys_clk = upper_clk_khz - 2000
        /\ a1[c].hw_clk[k] = upper_clk_khz

(***************************************************************************)
(* C13.  override_diff in job construction, as claimed: with               *)
(* override_diff = 0 the job's target field carries the target of the      *)
(* work's difficulty, with -1 the difficulty-1 target ff ff 00 1d, with a  *)
(* positive d the target of min(device_diff, d).                           *)
(***************************************************************************)
\* the compact target of difficulty d: exponent 29 - e and the mantissa
\* 0xffff * 256^e / d, in 0x008000 .. 0x7fffff
TargetOf(d) ==
    LET e == CHOOSE x \in 0..3 :
                 /\ 32768 * d <= 65535 * 256 ^ x
                 /\ 65535 * 256 ^ x < 8388608 * d
    IN  LE32((65535 * 256 ^ e) \div d + (29 - e) * 16777216)

Diff1Target == <<255, 255, 0, 29>>

Min(x, y) == IF x < y THEN x ELSE y

C13_OverrideClaimed ==
    (pf.fn = "create_job" /\ pf.calls > 0) =>
        LET od == cfg.override_diff
            d == pf.work.device_diff
        IN  pf.job.target =
                IF od = 0 THEN TargetOf(d)
                ELSE IF od = -1 THEN Diff1Target
                ELSE TargetOf(Min(d, od))

(***************************************************************************)
(* C13, amended.  With override_diff = 0 the job's target field carries    *)
(* the difficulty-1 target ff ff 00 1d, with -1 the target of the work's   *)
(* difficulty, with a positive d the target of min(device_diff, d).        *)
(***************************************************************************)
C13_Override ==
    pf.fn = "create_job" =>
        LET od == cfg.override_diff
        IN  pf.job.target =
                IF od = 0 \/ pf.calls = 0 THEN Diff1Target
                ELSE IF od = -1 THEN TargetOf(pf.work.device_diff)
                ELSE TargetOf(Min(pf.work.device_diff, od))

\* C13 witness: a job was created for a work of difficulty 4 with
\* override_diff = 2, after jobs of other targets
C13_Clamp ==
    /\ pf.fn = "create_job" /\ pf.calls = MaxCalls
    /\ cfg.override_diff = 2 /\ pf.work.device_diff = 4
    /\ pf.job.target = TargetOf(2)
    /\ pf.job.target # TargetOf(4)
    /\ pf.job.target # Diff1Target

(***************************************************************************)
(* C14.  Temperature range of the selector: whatever byte the sensor       *)
(* delivers, the value get_temp(0) returns and the values cached per board *)
(* lie in 0..100.                                                          *)
(***************************************************************************)
C14_TempRange ==
    pf.fn = "get_temp" =>
        /\ pf.r \in 0..100
        /\ \A b \in DOMAIN sel.last_temp : sel.last_temp[b] \in 0..100

(***************************************************************************)
(* C15.  Nonce accounting, as claimed: for every chip                      *)
(* nonces_found <= at_current.shares_ok + at_current.shares_nok.           *)
(***************************************************************************)
C15_AccountingClaimed ==
    \A c \in Chains : \A k \in DOMAIN a1[c].chips :
        a1[c].chips[k].nonces_found
            <= a1[c].chips[k].at_current.shares_ok
                   + a1[c].chips[k].at_current.shares_nok

(***************************************************************************)
(* C15, amended.  nonces_found counts the good nonces of a chip since      *)
(* bring-up and at_current.shares_ok those of the current window: for      *)
(* every chip nonces_found >= at_current.shares_ok, with equality while    *)
(* auto-tuning is off (no window is reset); a step that adds to            *)
(* nonces_found adds one, and one to the window's shares_ok, which is then *)
(* found in at_current or, the window being reset in that step, in         *)
(* at_prev.                                                                *)
(***************************************************************************)
C15_Counted ==
    \A c \in Chains : \A k \in DOMAIN a1[c].chips :
        /\ a1[c].chips[k].nonces_found >= a1[c].chips[k].at_current.shares_ok
        /\ ~cfg.enable_auto_tune =>
              a1[c].chips[k].nonces_found = a1[c].chips[k].at_current.shares_ok

C15_CountStep ==
    \A c \in Chains : \A k \in DOMAIN a1[c].chips :
        LET ch == a1[c].chips[k]
            ch2 == a1'[c].chips[k]
        IN  /\ ch2.nonces_found \in {ch.nonces_found, ch.nonces_found + 1}
            /\ ch2.nonces_found = ch.nonces_found + 1 =>
                  \/ ch2.at_current.shares_ok = ch.at_current.shares_ok + 1
                  \/ /\ ch2.at_current.shares_ok = 0
                     /\ ch2.at_prev.shares_ok = ch.at_current.shares_ok + 1

C15_Accounting == []C15_Counted /\ [][C15_CountStep]_vars

\* C15 witness: a good nonce was counted in the window after a reset
C15_NextWindow ==
    \E c \in Chains : \E k \in DOMAIN a1[c].chips :
        /\ a1[c].chips[k].nonces_found = MIN_NUM_NONCES + 1
        /\ a1[c].chips[k].at_current.shares_ok = 1
        /\ a1[c].chips[k].at_current.shares_nok = 0
        /\ a1[c].chips[k].at_prev.shares_ok = MIN_NUM_NONCES

(***************************************************************************)
(* C16.  Slot index: last_queued_id of every chip is in 0..3; every        *)
(* WRITE_JOB a step sends to a chip carries job_id = last_queued_id + 1,   *)
(* in 1..4; after an acknowledged write the work taken from the queue is   *)
(* in slot job_id - 1 and last_queued_id has advanced by one modulo 4;     *)
(* after a failed write (the chip is disabled, which flushes the SPI)      *)
(* last_queued_id is unchanged.                                            *)
(***************************************************************************)
C16_InRange ==
    \A c \in Chains : \A k \in DOMAIN a1[c].chips :
        a1[c].chips[k].last_queued_id \in 0..3

\* the WRITE_JOBs of a step's log to chip k, replayed from last_queued_id
\* lqi: queued are the works of the queue before the step, chip is the
\* chip after it
RECURSIVE C16_Replay(_, _, _, _, _)
C16_Replay(log, k, lqi, queued, chip) ==
    IF log = <<>> THEN [ok |-> TRUE, lqi |-> lqi]
    ELSE IF ~(Head(log)[1] = "WRITE_JOB" /\ Head(log)[2] = k)
    THEN C16_Replay(Tail(log), k, lqi, queued, chip)
    ELSE LET job_id == Head(log)[3]
             failed == Len(log) > 1 /\ log[2][1] = "FLUSH"
             rest == C16_Replay(Tail(log), k,
                                IF failed THEN lqi ELSE (lqi + 1) % 4,
                                queued, chip)
         IN  [ok |-> /\ job_id = lqi + 1
                     /\ job_id \in 1..4
                     /\ ~failed => chip.work[job_id - 1] \in queued
                     /\ rest.ok,
              lqi |-> rest.lqi]

C16_SlotStep ==
    \A c \in Chains :
        ThreadStep(c) /\ (\E i \in DOMAIN a1'[c].spi :
                              a1'[c].spi[i][1] = "WRITE_JOB") =>
            \A k \in DOMAIN a1[c].chips :
                LET r == C16_Replay(a1'[c].spi, k,
                                    a1[c].chips[k].last_queued_id,
                                    Range(a1[c].active_wq.list),
                                    a1'[c].chips[k])
                IN  r.ok /\ r.lqi = a1'[c].chips[k].last_queued_id

C16_SlotIndex == []C16_InRange /\ [][C16_SlotStep]_vars

\* C16 witness: job 4 was written to slot 3 and the index wrapped to 0
C16_Wrapped ==
    \E c \in Chains : \E k \in DOMAIN a1[c].chips :
        /\ a1[c].chips[k].last_queued_id = 0
        /\ a1[c].chips[k].work[3] # NULL
        /\ \E i \in DOMAIN a1[c].spi : a1[c].spi[i] = <<"WRITE_JOB", k, 4>>

(***************************************************************************)
(* C17.  Poll length of the SPI framer: a command with response length r   *)
(* to chip c in 1..64 clocks r + 4c - 2 poll bytes; a broadcast on a chain *)
(* of n > 0 known chips clocks r + 4n; a broadcast on a chain of unknown   *)
(* size (n = 0) clocks r + 32; the ACK is read at offset poll_len - r of   *)
(* the rx buffer.                                                          *)
(***************************************************************************)
C17_PollLen ==
    pf.fn = "exec_cmd" /\ pf.calls > 0 =>
        LET c == pf.arg.chip_id
            r == pf.arg.resp_len
            n == pf.num_chips
        IN  /\ c \in 1..64 => pf.r.poll_len = r + 4 * c - 2
            /\ c = 0 /\ n > 0 => pf.r.poll_len = r + 4 * n
            /\ c = 0 /\ n = 0 => pf.r.poll_len = r + 32
            /\ pf.r.ack_pos = pf.r.poll_len - r

\* C17 witness: READ_REG of the last chip of a full chain was framed
C17_LastChip ==
    /\ pf.fn = "exec_cmd"
    /\ ~crashed
    /\ pf.calls > 0
    /\ pf.num_chips = MAX_CHAIN_LENGTH
    /\ pf.arg = [chip_id |-> MAX_CHAIN_LENGTH, len |-> 0, resp_len |-> 6]
    /\ pf.r = [tx_len |-> 4, poll_len |-> 260, ack_pos |-> 254]

(***************************************************************************)
(* C18.  Chain length detection, as claimed: if the RESET ACK is first     *)
(* seen in the rx of the k-th 2-byte idle transfer after the RESET         *)
(* broadcast (k = 0: of the broadcast itself), chain_detect reports        *)
(* floor(k/2) + 1 chips; if no ACK is seen or a transfer fails it reports  *)
(* 0.                                                                      *)
(***************************************************************************)
C18_DetectClaimed ==
    pf.fn = "chain_detect" /\ pf.calls = 1 =>
        /\ pf.fail_at = NoWord /\ pf.ack_at \in 0..(2 * MAX_CHAIN_LENGTH - 2)
              => pf.num_chips = (pf.ack_at \div 2) + 1
        /\ pf.ack_at = NoWord => pf.num_chips = 0
        /\ pf.fail_at # NoWord /\ pf.fail_at <= pf.ack_at => pf.num_chips = 0

(***************************************************************************)
(* C18, amended.  If the RESET ACK is first seen in the rx of the k-th     *)
(* idle transfer, k in 0..2 * MAX_CHAIN_LENGTH - 2, and no transfer up to  *)
(* the k-th fails, chain_detect reports floor((k + 1) / 2) + 1 chips,      *)
(* which is k/2 + 1 for even k; it reports 0 if a transfer up to the k-th  *)
(* fails, or if the ACK is not seen in the broadcast and the first         *)
(* 2 * MAX_CHAIN_LENGTH - 2 idle transfers.                                *)
(***************************************************************************)
C18_Detect ==
    pf.fn = "chain_detect" /\ pf.calls = 1 =>
        LET k == pf.ack_at
            seen == k \in 0..(2 * MAX_CHAIN_LENGTH - 2)
            failed == pf.fail_at # NoWord /\ (~seen \/ pf.fail_at <= k)
        IN  /\ seen /\ ~failed => pf.num_chips = ((k + 1) \div 2) + 1
            /\ seen /\ ~failed /\ k % 2 = 0 => pf.num_chips = (k \div 2) + 1
            /\ ~seen \/ failed => pf.num_chips = 0

\* C18 witness: the ACK in the 5th idle transfer was read as four chips
C18_OddWord ==
    /\ pf.fn = "chain_detect"
    /\ pf.calls = 1
    /\ pf.ack_at = 5
    /\ pf.fail_at = NoWord
    /\ pf.num_chips = 4

(***************************************************************************)
(* C19.  PLL register field ranges: for every reference clock and every    *)
(* system clock >= 100 MHz the synthesizer encodes post_div in {1, 2, 3},  *)
(* pre_div in 1..31 and fb_div in 1..511, so that the fields of            *)
(* byte0 = (post_div << 6) | (pre_div << 1) | (fb_div >> 8) do not         *)
(* overlap.                                                                *)
(***************************************************************************)
C19_FieldRanges ==
    pf.fn = "get_pll_reg" /\ pf.calls = 1 =>
        /\ pf.r.post_div \in {1, 2, 3}
        /\ pf.r.pre_div \in 1..31
        /\ pf.r.fb_div \in 1..511
        /\ pf.r.writereg0 = pf.r.post_div * 64 + pf.r.pre_div * 2
                                + pf.r.fb_div \div 256

(***************************************************************************)
(* C20.  PLL synthesis error, as claimed: the synthesized frequency        *)
(* ref * fb_div / (pre_div * 2^(post_div - 1)) differs from the requested  *)
(* system clock by at most ref / (2 * pre_div * 2^(post_div - 1)).         *)
(***************************************************************************)
C20_HalfStep ==
    pf.fn = "get_pll_reg" /\ pf.calls = 1 /\ pf.ref = ref_clk_khz =>
        LET d == pf.r.pre_div * 2 ^ (pf.r.post_div - 1)
            e == pf.sys * d - pf.ref * pf.r.fb_div
        IN  /\ d > 0
            /\ 2 * e <= pf.ref
            /\ 2 * e >= 0 - pf.ref

(***************************************************************************)
(* C20, amended.  For the reference clock of 16 MHz and every requested    *)
(* system clock from 100 MHz, the multiplier is truncated: the synthesized *)
(* frequency ref * fb_div / (pre_div * 2^(post_div - 1)) is never above    *)
(* the requested clock and is below it by less than                        *)
(* ref / (pre_div * 2^(post_div - 1)).                                     *)
(***************************************************************************)
C20_Truncated ==
    pf.fn = "get_pll_reg" /\ pf.calls = 1 /\ pf.ref = ref_clk_khz =>
        LET d == pf.r.pre_div * 2 ^ (pf.r.post_div - 1)
            e == pf.sys * d - pf.ref * pf.r.fb_div
        IN  /\ d > 0
            /\ 0 <= e
            /\ e < pf.ref

\* C20 witness: 100.625 MHz was synthesized as 100 MHz in steps of 1 MHz
C20_BelowHalf ==
    /\ pf.fn = "get_pll_reg"
    /\ pf.calls = 1
    /\ pf.ref = ref_clk_khz
    /\ pf.sys = 100625
    /\ pf.r.post_div = 3
    /\ pf.r.pre_div = 4
    /\ pf.r.fb_div = 100

(***************************************************************************)
(* C21.  WRITE_JOB failure in the scheduler: when a WRITE_JOB to a chip    *)
(* fails in a scanwork pass (the chip is disabled, which flushes the SPI), *)
(* the work just dequeued is completed back to the framework, the chip is  *)
(* Cooling, and in the same pass no further work is dequeued and no        *)
(* further WRITE_JOB is sent to that chip.                                 *)
(***************************************************************************)
C21_FailStep ==
    \A c \in Chains :
        ThreadStep(c) =>
            \A i \in DOMAIN a1'[c].spi :
                LET log == a1'[c].spi
                    k == log[i][2]
                    \* the WRITE_JOBs of the step up to the i-th command
                    sent == Cardinality({j \in 1..i : log[j][1] = "WRITE_JOB"})
                IN  /\ log[i][1] = "WRITE_JOB"
                    /\ i < Len(log)
                    /\ log[i + 1][1] = "FLUSH"
                    => /\ Status(a1'[c].chips[k]) = "Cooling"
                       /\ a1'[c].completed[a1[c].active_wq.list[sent].id]
                              = a1[c].completed[a1[c].active_wq.list[sent].id] + 1
                       /\ a1'[c].active_wq.num_elems
                              = a1[c].active_wq.num_elems - sent
                       /\ \A j \in DOMAIN log :
                              j > i => ~(log[j][1] = "WRITE_JOB" /\ log[j][2] = k)

C21_WriteFailure == [][C21_FailStep]_vars

(***************************************************************************)
(* C22.  Validation of job_id: a result frame of an active chip whose      *)
(* job_id is outside 1..4 is not used to index the chip's work slots and   *)
(* is not submitted: the step that receives it counts nothing for any      *)
(* chip, charges no penalty, flushes the SPI and goes on.                  *)
(***************************************************************************)
C22_RangeStep ==
    \A c \in Chains :
        ThreadStep(c) =>
            \A i \in DOMAIN a1'[c].spi :
                LET log == a1'[c].spi
                IN  /\ log[i][1] = "RESULT"
                    /\ log[i][2] \in 1..a1[c].num_active_chips
                    /\ log[i][3] \notin 1..4
                    => /\ ~crashed'
                       /\ a1'[c].chips = a1[c].chips
                       /\ a1'[c].nonce_ranges_processed
                              = a1[c].nonce_ranges_processed
                       /\ \E j \in DOMAIN log : j > i /\ log[j][1] = "FLUSH"

C22_JobIdRange == [][C22_RangeStep]_vars

(***************************************************************************)
(* C23.  Cooling and Disabled chips are skipped: a result frame attributed *)
(* to a chip that is Cooling or Disabled (with a job_id in 1..4, one of    *)
(* the chip's slots) is not submitted and changes none of the chip's       *)
(* counters nor its clock, and the load loop of scanwork sends no READ_REG *)
(* to such a chip.                                                         *)
(***************************************************************************)
C23_SkipStep ==
    \A c \in Chains :
        ThreadStep(c) =>
            \A i \in DOMAIN a1'[c].spi :
                LET log == a1'[c].spi
                    k == log[i][2]
                IN  /\ log[i][1] = "RESULT" /\ k \in 1..a1[c].num_active_chips
                       /\ log[i][3] \in 1..4
                       /\ Status(a1[c].chips[k]) # "Active"
                       => /\ a1'[c].chips[k].nonces_found
                                 = a1[c].chips[k].nonces_found
                          /\ a1'[c].chips[k].hw_errors = a1[c].chips[k].hw_errors
                          /\ a1'[c].chips[k].at_current.shares_ok
                                 = a1[c].chips[k].at_current.shares_ok
                          /\ a1'[c].chips[k].at_current.shares_nok
                                 = a1[c].chips[k].at_current.shares_nok
                          /\ a1'[c].chips[k].at_current.sys_clk
                                 = a1[c].chips[k].at_current.sys_clk
                          /\ a1'[c].nonce_ranges_processed
                                 = a1[c].nonce_ranges_processed
                    /\ log[i][1] = "READ_REG" /\ thr[c].pc = "sw_load"
                       => Status(a1[c].chips[k]) = "Active"

C23_Skipped == [][C23_SkipStep]_vars

(***************************************************************************)
(* C24.  Queue-state dispatch: for an Active chip whose READ_REG succeeds, *)
(* qstate 3 and qstate 2 leave the work queue and the chip's slots         *)
(* unchanged; qstate 1 dequeues and loads min(1, queue length) works and   *)
(* qstate 0 min(2, queue length) works, into consecutive slots from        *)
(* last_queued_id on (the writes succeeding); an empty chip with two works *)
(* queued ends with slots 0 and 1 occupied and last_queued_id = 2.         *)
(***************************************************************************)
\* b is a with the first m works of the queue loaded into chip k
C24_Loads(a, b, k, m) ==
    LET n == a.active_wq.num_elems
        lqi == a.chips[k].last_queued_id
    IN  /\ b.active_wq.num_elems = n - m
        /\ b.active_wq.list = SubSeq(a.active_wq.list, m + 1, n)
        /\ Cardinality({i \in DOMAIN b.spi : b.spi[i][1] = "WRITE_JOB"}) = m
        /\ \A j \in 0..(m - 1) :
              b.chips[k].work[(lqi + j) % 4] = a.active_wq.list[j + 1]
        /\ \A j \in 0..3 :
              (\A i \in 0..(m - 1) : j # (lqi + i) % 4)
                  => b.chips[k].work[j] = a.chips[k].work[j]
        /\ b.chips[k].last_queued_id = (lqi + m) % 4

C24_Dispatch ==
    \A c \in Chains :
        thr[c].pc = "sw_load" /\ ~thr[c].work_restart
        /\ ~is_chip_disabled(a1[c], thr[c].i) =>
            \A q \in 0..3 :
                LET a == Begin(c)
                    k == thr[c].i
                    n == a.active_wq.num_elems
                    b == load_chip(a, k, [rr_ok |-> TRUE, qstate |-> q,
                                          wj1_ok |-> TRUE, wj2_ok |-> TRUE],
                                   now)
                IN  /\ q \in {2, 3} => C24_Loads(a, b, k, 0)
                    /\ q = 1 => C24_Loads(a, b, k, Min(1, n))
                    /\ q = 0 => C24_Loads(a, b, k, Min(2, n))
                    /\ q = 0 /\ n >= 2
                       /\ (\A j \in 0..3 : a.chips[k].work[j] = NULL)
                       /\ a.chips[k].last_queued_id = 0
                       => /\ b.chips[k].work[0] # NULL
                          /\ b.chips[k].work[1] # NULL
                          /\ b.chips[k].last_queued_id = 2

\* C24 witness: an empty chip in qstate 0 was loaded with two works
C24_TwoLoaded ==
    \E c \in Chains : \E k \in DOMAIN a1[c].chips :
        /\ a1[c].spi = <<<<"READ_REG", k, 0>>, <<"WRITE_JOB", k, 1>>,
                         <<"WRITE_JOB", k, 2>>>>
        /\ a1[c].chips[k].work[0] # NULL
        /\ a1[c].chips[k].work[1] # NULL
        /\ a1[c].chips[k].work[2] = NULL
        /\ a1[c].chips[k].work[3] = NULL
        /\ a1[c].chips[k].last_queued_id = 2
        /\ Status(a1[c].chips[k]) = "Active"

(***************************************************************************)
(* C25.  Up-tune guard: a chip's clock is raised only when the end of its  *)
(* current window has been reached and at_current.sys_clk >=               *)
(* at_prev.sys_clk; after a down-tune (current < prev) no operation,       *)
(* flush_work included, raises the clock.                                  *)
(***************************************************************************)
C25_GuardStep ==
    \A c \in Chains : \A k \in DOMAIN a1[c].chips :
        a1'[c].chips[k].at_current.sys_clk > a1[c].chips[k].at_current.sys_clk
            => /\ a1[c].chips[k].at_current.end_time <= now
               /\ a1[c].chips[k].at_current.sys_clk
                      >= a1[c].chips[k].at_prev.sys_clk

C25_UptuneGuard == [][C25_GuardStep]_vars

(***************************************************************************)
(* C26.  Up-tune on the good-nonce path: with auto-tune enabled, when a    *)
(* good nonce is counted for a chip whose window end has been reached,     *)
(* whose clock is below upper_clk_khz and >= at_prev.sys_clk (equality     *)
(* included), with at least MIN_NUM_NONCES shares in the window and a bad  *)
(* ratio below lower_ratio_pm, the clock is stepped by CLOCK_DELTA,        *)
(* clamped to upper_clk_khz (the chip answering the commands of the        *)
(* change).                                                                *)
(***************************************************************************)
C26_GoodStep ==
    \A c \in Chains : \A k \in DOMAIN a1[c].chips :
        LET chip == a1[c].chips[k]
            counted == [chip EXCEPT !.at_current.shares_ok = @ + 1]
        IN  /\ cfg.enable_auto_tune
            /\ ~crashed'
            /\ fw'.chip_faults = fw.chip_faults
            /\ a1'[c].chips[k].nonces_found = chip.nonces_found + 1
            /\ \E i \in DOMAIN a1'[c].spi, j \in 1..4 :
                  a1'[c].spi[i] = <<"RESULT", k, j>>
            /\ chip.at_current.end_time <= now
            /\ chip.at_current.sys_clk < upper_clk_khz
            /\ chip.at_current.sys_clk >= chip.at_prev.sys_clk
            /\ get_nonce_ratio(counted) >= 0
            /\ get_nonce_ratio(counted) < lower_ratio_pm
            => a1'[c].chips[k].at_current.sys_clk
                   = Min(chip.at_current.sys_clk + CLOCK_DELTA, upper_clk_khz)

C26_GoodUptune == [][C26_GoodStep]_vars

(***************************************************************************)
(* C27.  Down-tune on the bad-nonce path, as claimed: with auto-tune       *)
(* enabled, a bad nonce with fewer than BAD_NONCE_COUNT bad shares in the  *)
(* window (itself counted) changes nothing else; otherwise, if the ratio   *)
(* (unknown below MIN_NUM_NONCES shares) is above upper_ratio_pm and the   *)
(* clock above lower_clk_khz, the clock becomes                            *)
(* max(sys_clk - CLOCK_DELTA, lower_clk_khz), and in every other case the  *)
(* window is reset and the clock unchanged.                                *)
(***************************************************************************)
\* a step in which a bad nonce of a slot of chip k is counted, the chip
\* answering every command
C27_BadCounted(c, k) ==
    /\ cfg.enable_auto_tune
    /\ ~crashed'
    /\ fw'.chip_faults = fw.chip_faults
    /\ a1'[c].chips[k].hw_errors = a1[c].chips[k].hw_errors + 1
    /\ \E i \in DOMAIN a1'[c].spi, j \in 1..4 :
          a1'[c].spi[i] = <<"RESULT", k, j>>

\* the chip with the bad nonce counted
C27_Counted(chip) ==
    [chip EXCEPT !.hw_errors = @ + 1, !.at_current.shares_nok = @ + 1]

\* the window of chip k is reset in the step
C27_Reset(c, k) ==
    /\ a1'[c].chips[k].at_current.shares_ok = 0
    /\ a1'[c].chips[k].at_current.shares_nok = 0
    /\ a1'[c].chips[k].at_current.start_time = now
    /\ a1'[c].chips[k].at_prev = C27_Counted(a1[c].chips[k]).at_current

C27_ClaimedStep ==
    \A c \in Chains : \A k \in DOMAIN a1[c].chips :
        C27_BadCounted(c, k) =>
            LET chip == C27_Counted(a1[c].chips[k])
                r == get_nonce_ratio(chip)
                clk == chip.at_current.sys_clk
            IN  IF chip.at_current.shares_nok < BAD_NONCE_COUNT
                THEN a1'[c].chips[k] = chip
                ELSE IF r > upper_ratio_pm /\ clk > lower_clk_khz
                THEN a1'[c].chips[k].at_current.sys_clk
                         = IF clk - CLOCK_DELTA > lower_clk_khz
                           THEN clk - CLOCK_DELTA ELSE lower_clk_khz
                ELSE /\ C27_Reset(c, k)
                     /\ a1'[c].chips[k].at_current.sys_clk = clk

C27_BadPathClaimed == [][C27_ClaimedStep]_vars

(***************************************************************************)
(* C27, amended.  As claimed, but a bad nonce that leaves the ratio        *)
(* unknown (fewer than MIN_NUM_NONCES shares in the window) changes        *)
(* nothing else however many bad shares the window holds; the window is    *)
(* reset, and the clock unchanged, only when the ratio is known and not    *)
(* above upper_ratio_pm or the clock is not above lower_clk_khz; a         *)
(* down-tune resets the window too and sets the clock to                   *)
(* sys_clk - CLOCK_DELTA clamped to lower_clk_khz..upper_clk_khz.          *)
(***************************************************************************)
C27_BadStep ==
    \A c \in Chains : \A k \in DOMAIN a1[c].chips :
        C27_BadCounted(c, k) =>
            LET chip == C27_Counted(a1[c].chips[k])
                r == get_nonce_ratio(chip)
                clk == chip.at_current.sys_clk
            IN  IF chip.at_current.shares_nok < BAD_NONCE_COUNT \/ r < 0
                THEN a1'[c].chips[k] = chip
                ELSE IF r > upper_ratio_pm /\ clk > lower_clk_khz
                THEN /\ C27_Reset(c, k)
                     /\ a1'[c].chips[k].at_current.sys_clk
                            = IF clk - CLOCK_DELTA > upper_clk_khz
                              THEN upper_clk_khz
                              ELSE IF clk - CLOCK_DELTA > lower_clk_khz
                              THEN clk - CLOCK_DELTA ELSE lower_clk_khz
                ELSE /\ C27_Reset(c, k)
                     /\ a1'[c].chips[k].at_current.sys_clk = clk

C27_BadPath == [][C27_BadStep]_vars

\* C27 witness: the fifth bad nonce of a window of five shares was counted
\* and the window kept
C27_Unknown ==
    \E c \in Chains : \E k \in DOMAIN a1[c].chips :
        /\ cfg.enable_auto_tune
        /\ a1[c].chips[k].at_current.shares_nok = BAD_NONCE_COUNT
        /\ a1[c].chips[k].at_current.shares_ok = 0
        /\ a1[c].chips[k].hw_errors = BAD_NONCE_COUNT
        /\ \E i \in DOMAIN a1[c].spi, j \in 1..4 :
              a1[c].spi[i] = <<"RESULT", k, j>>

(***************************************************************************)
(* C28.  Clock-change failure: when a clock change started by the tuner    *)
(* fails (the chip is sent its RESET and the recorded clock is not         *)
(* changed), the chip is moved to Cooling and at_current.sys_clk keeps the *)
(* old value.                                                              *)
(***************************************************************************)
C28_FailStep ==
    \A c \in Chains :
        ThreadStep(c) =>
            \A k \in DOMAIN a1[c].chips :
                /\ \E i \in DOMAIN a1'[c].spi : a1'[c].spi[i] = <<"RESET", k, 0>>
                /\ a1'[c].chips[k].at_current.sys_clk
                       = a1[c].chips[k].at_current.sys_clk
                /\ Status(a1[c].chips[k]) = "Active"
                => Status(a1'[c].chips[k]) = "Cooling"

C28_ClockFailure == [][C28_FailStep]_vars


(***************************************************************************)
(* C29: a PLL configuration targeted at one chip reports success only if   *)
(* the chip was polled with READ_REG, at least once and at most            *)
(* MAX_PLL_WAIT_CYCLES times, and a readback showed the lock bit with the  *)
(* two register bytes as written; a chip whose PLL never shows that        *)
(* readback makes the configuration report failure.                        *)
(***************************************************************************)
C29_TargetedLock ==
    pf.fn = "set_pll_config" /\ pf.calls = 1 =>
        /\ pf.r => /\ pf.in.lock = "ok"
                   /\ Polls(pf.spi, pf.chip_id) \in 1..MAX_PLL_WAIT_CYCLES
        /\ pf.in.lock # "ok" => ~pf.r

(***************************************************************************)
(* C30: at bring-up, after the broadcast PLL WRITE_REG, the lock of every  *)
(* chip 1..N is verified with READ_REG polls, and one chip whose PLL does  *)
(* not lock makes init_A1_chain yield no chain.                            *)
(***************************************************************************)
C30_BringUpLock ==
    pf.fn = "init_A1_chain" /\ pf.calls = 1 =>
        /\ pf.r => Cardinality({i \in DOMAIN pf.spi : pf.spi[i][1] = "READ_REG"})
                       >= pf.num_chips
        /\ (\E k \in 1..pf.num_chips : pf.locks[k] # "ok") => ~pf.r


(***************************************************************************)
(* C31: check_chip classifies a chip: one selected by the chip bitmask is  *)
(* Disabled with 0 cores and no command is sent to it; one whose READ_REG  *)
(* is not answered is Disabled with 0 cores; one reporting fewer than 26   *)
(* cores is sent the PLL configuration of 400 MHz and is Disabled; one     *)
(* reporting 26..29 cores is sent the PLL configuration of 600 MHz and     *)
(* stays Active; one reporting 30 cores or more stays Active, is sent no   *)
(* PLL configuration and runs at the configured clock.                     *)
(***************************************************************************)
C31_RePll(clk) ==
    /\ \E i \in DOMAIN pf.spi : pf.spi[i] = <<"WRITE_REG", pf.chip_id, 0>>
    /\ pf.in.wr_ok => pf.hw_clk = clk

C31_Classify ==
    pf.fn = "check_chip" /\ pf.calls = 1 =>
        IF pf.in.bypass
        THEN Status(pf.chip) = "Disabled" /\ pf.chip.num_cores = 0
                /\ pf.spi = <<>>
        ELSE IF ~pf.in.rr_ok
        THEN Status(pf.chip) = "Disabled" /\ pf.chip.num_cores = 0
        ELSE IF pf.in.cores < 26
        THEN C31_RePll(400000) /\ Status(pf.chip) = "Disabled"
        ELSE IF pf.in.cores < 30
        THEN C31_RePll(600000) /\ Status(pf.chip) = "Active"
        ELSE /\ Status(pf.chip) = "Active"
             /\ \A i \in DOMAIN pf.spi : pf.spi[i][1] # "WRITE_REG"
             /\ pf.hw_clk = pf.sys_clk
             /\ pf.chip.at_current.sys_clk = pf.sys_clk

\* a weak chip was classified: 29 cores, re-PLLed, Active
C31_Weak ==
    /\ pf.fn = "check_chip" /\ pf.calls = 1
    /\ ~pf.in.bypass /\ pf.in.rr_ok /\ pf.in.cores = 29 /\ pf.in.wr_ok
    /\ pf.hw_clk = 600000
    /\ Status(pf.chip) = "Active"


(***************************************************************************)
(* C32: on a scanwork pass with cutofftemp > 0 and the chain's temperature *)
(* above it, every step after the temperature update leaves the work       *)
(* queue alone, sends no READ_REG and no WRITE_JOB, leaves every Cooling   *)
(* chip as it is (not probed, not re-enabled), never enters the load loop  *)
(* or check_disabled_chips, and the pass returns to its sleep with the     *)
(* chain's mutex and the selector released; results are still drained.     *)
(***************************************************************************)
C32_OverTemp(c) == cfg.cutofftemp > 0 /\ a1[c].temp > cfg.cutofftemp

C32_ScanPcs == {"sw_drain", "sw_load", "sw_check", "sw_done", "sw_release"}

C32_ThrottleStep ==
    \A c \in Chains :
        ThreadStep(c) /\ thr[c].pc \in C32_ScanPcs /\ C32_OverTemp(c) =>
            /\ a1'[c].active_wq = a1[c].active_wq
            /\ \A i \in DOMAIN a1'[c].spi :
                  a1'[c].spi[i][1] \notin {"READ_REG", "WRITE_JOB"}
            /\ \A k \in DOMAIN a1[c].chips :
                  Status(a1[c].chips[k]) = "Cooling" =>
                      /\ Status(a1'[c].chips[k]) = "Cooling"
                      /\ a1'[c].chips[k].cooldown_begin
                             = a1[c].chips[k].cooldown_begin
                      /\ a1'[c].chips[k].fail_count = a1[c].chips[k].fail_count
            /\ thr'[c].pc \notin {"sw_load", "sw_check"}
            /\ thr'[c].pc = "idle" => ~a1'[c].lock /\ sel'.lock # c

C32_Throttle == [][C32_ThrottleStep]_vars

\* a throttled pass has drained and unlocked the mutex while a chip's
\* cooldown has elapsed
C32_Throttled ==
    \E c \in Chains :
        /\ C32_OverTemp(c)
        /\ thr[c].pc = "sw_release"
        /\ ~a1[c].lock
        /\ \E k \in DOMAIN a1[c].chips :
              /\ Status(a1[c].chips[k]) = "Cooling"
              /\ a1[c].chips[k].cooldown_begin + COOLDOWN_MS < now


(***************************************************************************)
(* C33: every work item the framework handed to a chain through            *)
(* A1_queue_full is in exactly one place: once in the chain's work queue,  *)
(* or in one slot of one chip, or given back once with work_completed; an  *)
(* item not handed out yet is nowhere.  Holds in every state between the   *)
(* steps of scanwork, queue_full and flush_work.                           *)
(***************************************************************************)
C33_Queued(c, w) ==
    Cardinality({i \in DOMAIN a1[c].active_wq.list :
                    a1[c].active_wq.list[i].id = w})

C33_Slots(c, w) ==
    Cardinality({x \in (DOMAIN a1[c].chips) \X (0..3) :
                    a1[c].chips[x[1]].work[x[2]].id = w})

C33_Sum(f, S) ==
    LET RECURSIVE sum(_)
        sum(T) == IF T = {} THEN 0
                  ELSE LET x == CHOOSE y \in T : TRUE
                       IN  f[x] + sum(T \ {x})
    IN  sum(S)

C33_Places(w) ==
    C33_Sum([c \in Chains |->
                C33_Queued(c, w) + C33_Slots(c, w) + a1[c].completed[w]],
            Chains)

C33_Conservation ==
    \A w \in 1..MaxWorks :
        C33_Places(w) = (IF w < fw.next THEN 1 ELSE 0)

\* of three items handed out, one is queued, one sits in a chip's slot and
\* one was given back
C33_EveryPlace ==
    \E c \in Chains :
        \E u, v, w \in 1..MaxWorks :
            /\ C33_Queued(c, u) = 1
            /\ C33_Slots(c, v) = 1
            /\ a1[c].completed[w] = 1


(***************************************************************************)
(* C34: hash credit is conserved step by step, so that the values returned *)
(* (in units of 2^32) plus nonce_ranges_processed always equal the         *)
(* slot-reuse completions minus the penalties.  A return of scanwork       *)
(* (normal, throttled, clipped to 0, aborted) moves credit from the        *)
(* accumulator to the returned value and loses none; an iteration of the   *)
(* load loop adds 1 per item completed because its slot was reused (the    *)
(* completions of the iteration less the items given back after a failed   *)
(* WRITE_JOB); a result frame subtracts the device_diff of its work if the *)
(* nonce is rejected (counted in hw_errors) and nothing otherwise; no      *)
(* other step of the chain's thread changes the accumulator.               *)
(***************************************************************************)
C34_Completed(a) == C33_Sum(a.completed, DOMAIN a.completed)

\* WRITE_JOBs of a log that were not acknowledged (disable_chip follows)
C34_GivenBack(spi) ==
    Cardinality({i \in DOMAIN spi :
                    /\ spi[i][1] = "WRITE_JOB"
                    /\ i + 1 \in DOMAIN spi
                    /\ spi[i + 1][1] = "FLUSH"})

\* the penalties the step's result frame may cost
C34_Penalties(c) ==
    LET spi == a1'[c].spi
        fr == {i \in DOMAIN spi :
                  spi[i][1] = "RESULT" /\ spi[i][2] \in DOMAIN a1[c].chips}
    IN  IF fr = {} THEN {0}
        ELSE LET f == spi[CHOOSE i \in fr : TRUE]
                 k == f[2]
             IN  IF a1'[c].chips[k].hw_errors = a1[c].chips[k].hw_errors
                 THEN {0}
                 ELSE IF f[3] \in 1..4
                 THEN {a1[c].chips[k].work[f[3] - 1].device_diff}
                 ELSE DiffSet

C34_CreditStep ==
    \A c \in Chains :
        ThreadStep(c) =>
            LET n == a1[c].nonce_ranges_processed
                m == a1'[c].nonce_ranges_processed
            IN  IF thr[c].pc \in {"sw_release", "sw_abort_release"}
                THEN /\ thr'[c].pc = "idle"
                     /\ thr'[c].ret.lo = 0
                     /\ thr'[c].ret.hi + m = n
                ELSE IF thr[c].pc = "sw_load"
                THEN m - n = C34_Completed(a1'[c]) - C34_Completed(a1[c])
                                - C34_GivenBack(a1'[c].spi)
                ELSE IF thr[c].pc = "sw_drain"
                THEN n - m \in C34_Penalties(c)
                ELSE m = n

C34_Credit == [][C34_CreditStep]_vars

\* scanwork returned 0 with a negative accumulator kept, the debt is
\* carried to the next pass
C34_Debt ==
    \E c \in Chains :
        /\ thr[c].pc = "idle"
        /\ thr[c].ret = [hi |-> 0, lo |-> 0]
        /\ a1[c].nonce_ranges_processed < 0
        /\ \E k \in DOMAIN a1[c].chips : a1[c].chips[k].hw_errors > 0


(***************************************************************************)
(* C35: the threads of the chains never deadlock on the selector's mutex   *)
(* and the chains' mutexes.  In every state of the running program a       *)
(* thread that waits for a mutex waits for one held by a thread that can   *)
(* step; a thread that is in no driver function holds neither the          *)
(* selector nor its chain's mutex (select and release are balanced on      *)
(* every return path); and every call that started returns, unless the     *)
(* program is aborted meanwhile.                                           *)
(***************************************************************************)
\* thread c waits for a mutex that is taken
C35_Waits(c) ==
    \/ thr[c].pc = "sw_select" /\ sel.lock # NoThread
    \/ thr[c].pc \in {"sw_lock", "fl_lock"} /\ a1[c].lock

C35_Safe ==
    \A c \in Chains :
        /\ thr[c].pc = "idle" => sel.lock # c /\ ~a1[c].lock
        /\ (~crashed /\ C35_Waits(c)) =>
              \E d \in Chains : d # c /\ thr[d].pc # "idle" /\ ~C35_Waits(d)

C35_Returns ==
    \A c \in ConcChains :
        (thr[c].pc # "idle") ~> (thr[c].pc = "idle" \/ crashed)

C35_DeadlockFree == []C35_Safe /\ C35_Returns

\* one thread waits in select for the selector that the other, flushing
\* its chain, holds together with its chain's mutex
C35_Contended ==
    \E c \in Chains, d \in Chains :
        /\ c # d
        /\ thr[c].pc = "sw_select" /\ sel.lock = d
        /\ thr[d].pc = "fl_body" /\ a1[d].lock


(***************************************************************************)
(* C36: the selector agrees with the hardware.  Whenever a thread's        *)
(* ccb_select(chain) returns true, the enable port of the I2C expander     *)
(* holds the byte that enables board chain / 2 and no other, whatever      *)
(* selects came before (failed ones included); and a step of scanwork or   *)
(* flush_work sends SPI commands for its chain only while the port enables *)
(* the chain's board, i.e. after a select that succeeded.                  *)
(***************************************************************************)
\* thread c's select returns true in this step
C36_SelectedOk(c) ==
    /\ sel.lock # c
    /\ sel'.lock = c
    /\ \E i2c \in {"ok", "fail1", "fail2"} :
          LET o == ccb_select(sel, c, i2c)
          IN  o.r /\ sel' = [o.s EXCEPT !.lock = c]

C36_SelectStep ==
    \A c \in Chains :
        /\ C36_SelectedOk(c) => sel'.port1 = EnableByte(c \div 2)
        /\ (ThreadStep(c) /\ a1'[c].spi # <<>>) =>
              sel.port1 = EnableByte(c \div 2)

C36_HardwareSelected == [][C36_SelectStep]_vars


(***************************************************************************)
(* C37: the tuner's view matches the chip.  For every chip that is not     *)
(* Disabled, after bring-up and after every step of the driver,            *)
(* at_current.sys_clk is the system clock of the last PLL configuration    *)
(* the chip acknowledged.                                                  *)
(***************************************************************************)
C37_TunerView ==
    \A c \in Chains : \A k \in DOMAIN a1[c].chips :
        Status(a1[c].chips[k]) # "Disabled" =>
            a1[c].chips[k].at_current.sys_clk = a1[c].hw_clk[k]


(***************************************************************************)
(* C38: Cooling is transient.  A chip enters Cooling with fail_count 0,    *)
(* every probe of a Cooling chip makes it Active, or counts one more       *)
(* failure and restarts the cooldown, or (the 4th failed probe in a row)   *)
(* makes it Disabled; and while scanwork keeps being called and is not     *)
(* aborted (work_restart) or throttled and the program runs, a Cooling     *)
(* chip becomes Active or Disabled, unless the clock stops before its      *)
(* cooldown has elapsed.                                                   *)
(***************************************************************************)
C38_Cooling(k) ==
    /\ k \in DOMAIN a1[CoolChain].chips
    /\ Status(a1[CoolChain].chips[k]) = "Cooling"

C38_Resolved(k) ==
    /\ k \in DOMAIN a1[CoolChain].chips
    /\ Status(a1[CoolChain].chips[k]) \in {"Active", "Disabled"}

\* what the claim assumes away: an abort, throttling, the end of the
\* program, the end of time with the cooldown still running
C38_Excused(k) ==
    \/ crashed
    \/ thr[CoolChain].work_restart
    \/ cfg.cutofftemp > 0 /\ a1[CoolChain].temp > cfg.cutofftemp
    \/ /\ fw.ticks = 0
       /\ k \in DOMAIN a1[CoolChain].chips
       /\ now < a1[CoolChain].chips[k].cooldown_begin + COOLDOWN_MS

C38_ProbeStep ==
    \A k \in DOMAIN a1[CoolChain].chips :
        LET ch == a1[CoolChain].chips[k]
            ch2 == a1'[CoolChain].chips[k]
            probed == /\ thr[CoolChain].pc = "sw_check"
                      /\ \E i \in DOMAIN a1'[CoolChain].spi :
                            a1'[CoolChain].spi[i] = <<"READ_REG", k, 0>>
        IN  /\ (Status(ch) = "Active" /\ Status(ch2) = "Cooling")
                   => ch2.fail_count = 0
            /\ (Status(ch) = "Cooling" /\ probed) =>
                   \/ Status(ch2) = "Active"
                   \/ /\ Status(ch2) = "Cooling"
                      /\ ch2.fail_count = ch.fail_count + 1
                      /\ ch2.fail_count <= DISABLE_CHIP_FAIL_THRESHOLD
                      /\ ch2.cooldown_begin = now
                   \/ /\ Status(ch2) = "Disabled"
                      /\ ch.fail_count = DISABLE_CHIP_FAIL_THRESHOLD

C38_Resolves ==
    \A k \in 1..MaxChips :
        C38_Cooling(k) ~> (C38_Resolved(k) \/ C38_Excused(k))

C38_Transient == [][C38_ProbeStep]_vars /\ C38_Resolves

\* a chip was probed for the third time and cools on
C38_ThirdProbe ==
    \E k \in DOMAIN a1[CoolChain].chips :
        /\ thr[CoolChain].pc = "sw_done"
        /\ Status(a1[CoolChain].chips[k]) = "Cooling"
        /\ a1[CoolChain].chips[k].fail_count = DISABLE_CHIP_FAIL_THRESHOLD
        /\ a1[CoolChain].chips[k].cooldown_begin = now

====
